---------------------------- MODULE Spec2Model ----------------------------
(*
  ProMEL AI backend (src/unnamed/part_001, the intent-routing variant of
  lines 667-1669): the sheet-to-metrics pipeline and the reconciliation of
  the model's output into the payload of POST /api/pas-ai-chat.

  A JavaScript string is a sequence of symbols.  A symbol is a TLA+ string
  that stands for the characters it spells; messages, header names, cells and
  keywords are spelled one character per symbol, so that trim, toLowerCase,
  startsWith and includes act on characters.
*)
EXTENDS Integers, Sequences, FiniteSets, TLC

VARIABLES
  fRows,      \* filter calls: the parsed rows handed to the row filters
  fFilters,   \* filter calls: the filters object
  fMon,       \* filter calls: what filterMonitoringRows returned
  fEval,      \* filter calls: what filterEvaluationRows returned
  iMessage,   \* intent calls: the message handed to detectMELIntent
  iIntent,    \* intent calls: what detectMELIntent returned
  pText,      \* parse calls: the text handed to safeParseAiJson
  pOut,       \* parse calls: what safeParseAiJson returned
  cParts,     \* CSV calls: the pieces of the text handed to parseCSV
  cRows,      \* CSV calls: what parseCSV returned
  aHeader,    \* average calls: the header handed to averageNumericColumn
  aData,      \* average calls: the data rows
  aCol,       \* average calls: the column name
  aOut,       \* average calls: what averageNumericColumn returned
  vMon,       \* sheet calls: the header and data of the monitoring sheet
  vEval,      \* sheet calls: the header and data of the evaluation sheet
  vRating,    \* sheet calls: the rating handed to percentFromRating
  vCall,      \* sheet calls: the function that was called
  vOut,       \* sheet calls: what it returned
  apiKey,     \* chat handler: whether process.env.OPENAI_API_KEY is set
  req         \* chat handler: the state of each request to /api/pas-ai-chat

filterVars == <<fRows, fFilters, fMon, fEval>>
intentVars == <<iMessage, iIntent>>
parseVars == <<pText, pOut>>
csvVars == <<cParts, cRows>>
avgVars == <<aHeader, aData, aCol, aOut>>
visVars == <<vMon, vEval, vRating, vCall, vOut>>
chatVars == <<apiKey, req>>

vars == <<filterVars, intentVars, parseVars, csvVars, avgVars, visVars, chatVars>>

-----------------------------------------------------------------------------
(* Bounds of the model *)

MaxRows == 2
MaxWords == 2
MaxAffix == 2
MaxField == 3
MaxSheetRows == 2
MaxNumerator == 20
MaxMembers == 3

-----------------------------------------------------------------------------
(* Strings *)

WhiteSpace == {" ", "\n", "\t"}

LowerChar(c) ==
  LET Upper == <<"A", "B", "C", "D", "E", "F", "G", "H", "I", "J", "K", "L", "M",
                 "N", "O", "P", "Q", "R", "S", "T", "U", "V", "W", "X", "Y", "Z">>
      Lower == <<"a", "b", "c", "d", "e", "f", "g", "h", "i", "j", "k", "l", "m",
                 "n", "o", "p", "q", "r", "s", "t", "u", "v", "w", "x", "y", "z">>
  IN IF \E i \in 1..Len(Upper) : Upper[i] = c
       THEN Lower[CHOOSE i \in 1..Len(Upper) : Upper[i] = c]
       ELSE c

\* String.prototype.toLowerCase
ToLowerCase(s) == [i \in 1..Len(s) |-> LowerChar(s[i])]

RECURSIVE TrimStart(_)
TrimStart(s) ==
  IF s # <<>> /\ Head(s) \in WhiteSpace THEN TrimStart(Tail(s)) ELSE s

RECURSIVE TrimEnd(_)
TrimEnd(s) ==
  IF s # <<>> /\ s[Len(s)] \in WhiteSpace
    THEN TrimEnd(SubSeq(s, 1, Len(s) - 1))
    ELSE s

\* String.prototype.trim
Trim(s) == TrimEnd(TrimStart(s))

\* String.prototype.startsWith
StartsWith(s, p) == Len(p) <= Len(s) /\ SubSeq(s, 1, Len(p)) = p

\* String.prototype.includes
Includes(s, p) ==
  \E i \in 1..(Len(s) - Len(p) + 1) : SubSeq(s, i, i + Len(p) - 1) = p

\* Array.prototype.indexOf, 1-based; 0 stands for JavaScript's -1
IndexOf(seq, x) ==
  IF \E i \in 1..Len(seq) : seq[i] = x
    THEN CHOOSE i \in 1..Len(seq) : seq[i] = x /\ \A j \in 1..(i - 1) : seq[j] # x
    ELSE 0

\* All sequences over S of length lo..hi
SeqsOf(S, lo, hi) == UNION {[1..n -> S] : n \in lo..hi}

-----------------------------------------------------------------------------
(* Row filter *)

\* The column names of the filter criteria
FILTER_COL ==
  [ project_name |-> <<"p", "r", "o", "j", "e", "c", "t", " ", "n", "a", "m", "e">>,
    reporting_period |-> <<"r", "e", "p", "o", "r", "t", "i", "n", "g", " ", "p", "e", "r", "i", "o", "d">>,
    location |-> <<"p", "r", "o", "v", "i", "n", "c", "e", " ", "/", " ", "d", "i", "s", "t", "r", "i", "c", "t", " ", "/", " ", "l", "o", "c", "a", "t", "i", "o", "n">> ]

safeLower(s) == ToLowerCase(Trim(s))

findIndex(headersLower, exactName) == IndexOf(headersLower, exactName)

\* String(r[idx] || "").trim(), "" when the column was not found
CellAt(r, idx) ==
  IF idx # 0 THEN (IF idx <= Len(r) THEN Trim(r[idx]) ELSE <<>>) ELSE <<>>

\* r.every((c) => String(c || "").trim() === "")
BlankRow(r) == \A i \in 1..Len(r) : Trim(r[i]) = <<>>

\* MatchCriterion that compares without regard to case
MatchCriterionIgnoringCase(criterion, cell) ==
  IF criterion # <<>> THEN ToLowerCase(cell) = ToLowerCase(criterion) ELSE TRUE

\* const matchX = x ? cell === x : true
MatchCriterion(criterion, cell) == IF criterion # <<>> THEN cell = criterion ELSE TRUE

\* filterMonitoringRows that takes the data to start after the second row
filterMonitoringRowsFromThird(rows, filters) ==
  IF Len(rows) <= 1 THEN [header |-> <<>>, data |-> <<>>]
  ELSE
    LET header == rows[1]
        headersLower == [i \in 1..Len(header) |-> safeLower(header[i])]
        idxProject == findIndex(headersLower, FILTER_COL.project_name)
        idxPeriod == findIndex(headersLower, FILTER_COL.reporting_period)
        idxLocation == findIndex(headersLower, FILTER_COL.location)
        project == Trim(filters.project)
        period == Trim(filters.period)
        location == Trim(filters.location)
        data == SelectSeq(Tail(Tail(rows)), LAMBDA r : ~BlankRow(r))
        Keep(r) == /\ MatchCriterion(project, CellAt(r, idxProject))
                   /\ MatchCriterion(period, CellAt(r, idxPeriod))
                   /\ MatchCriterion(location, CellAt(r, idxLocation))
    IN [header |-> header, data |-> SelectSeq(data, Keep)]

filterMonitoringRows(rows, filters) ==
  IF Len(rows) <= 1 THEN [header |-> <<>>, data |-> <<>>]
  ELSE
    LET header == rows[1]
        headersLower == [i \in 1..Len(header) |-> safeLower(header[i])]
        idxProject == findIndex(headersLower, FILTER_COL.project_name)
        idxPeriod == findIndex(headersLower, FILTER_COL.reporting_period)
        idxLocation == findIndex(headersLower, FILTER_COL.location)
        project == Trim(filters.project)
        period == Trim(filters.period)
        location == Trim(filters.location)
        data == SelectSeq(Tail(rows), LAMBDA r : ~BlankRow(r))
        Keep(r) == /\ MatchCriterion(project, CellAt(r, idxProject))
                   /\ MatchCriterion(period, CellAt(r, idxPeriod))
                   /\ MatchCriterion(location, CellAt(r, idxLocation))
    IN [header |-> header, data |-> SelectSeq(data, Keep)]

filterEvaluationRows(rows, filters) ==
  IF Len(rows) <= 1 THEN [header |-> <<>>, data |-> <<>>]
  ELSE
    LET header == rows[1]
        headersLower == [i \in 1..Len(header) |-> safeLower(header[i])]
        idxProject == findIndex(headersLower, FILTER_COL.project_name)
        idxPeriod == findIndex(headersLower, FILTER_COL.reporting_period)
        project == Trim(filters.project)
        period == Trim(filters.period)
        data == SelectSeq(Tail(rows), LAMBDA r : ~BlankRow(r))
        Keep(r) == /\ MatchCriterion(project, CellAt(r, idxProject))
                   /\ MatchCriterion(period, CellAt(r, idxPeriod))
    IN [header |-> header, data |-> SelectSeq(data, Keep)]

-----------------------------------------------------------------------------
(* JSON.parse

   The model's output text is a sequence of lexemes: a fence, a language
   tag, white space, punctuation, a digit, null, a string literal, a key with
   its colon, or a letter that belongs to no JSON value.  JSON.parse reads the
   JSON grammar over these lexemes. *)

JUndefined == [ty |-> "undefined"]
JNull == [ty |-> "null"]
JNum(n) == [ty |-> "number", n |-> n]
JStr(str) == [ty |-> "string", s |-> str]
JArr(items) == [ty |-> "array", items |-> items]
JObj(members) == [ty |-> "object", members |-> members]

Digits == <<"0", "1", "2", "3", "4", "5", "6", "7", "8", "9">>
IsDigit(c) == \E d \in 1..Len(Digits) : Digits[d] = c
DigitValue(c) == (CHOOSE d \in 1..Len(Digits) : Digits[d] = c) - 1

\* The string literals of the texts, each with the string it denotes
StringLexemes ==
  << [lex |-> "\"\"", s |-> <<>>],
     [lex |-> "\" \"", s |-> <<" ">>],
     [lex |-> "\"T\"", s |-> <<"T">>],
     [lex |-> "\"body\"", s |-> <<"body">>],
     [lex |-> "\"f1\"", s |-> <<"f1">>],
     [lex |-> "\"f2\"", s |-> <<"f2">>] >>

\* The keys of the texts, each lexeme a string literal followed by a colon
KeyLexemes ==
  << [lex |-> "\"report_title\":", key |-> "report_title"],
     [lex |-> "\"report_markdown\":", key |-> "report_markdown"],
     [lex |-> "\"key_findings\":", key |-> "key_findings"],
     [lex |-> "\"recommendations\":", key |-> "recommendations"],
     [lex |-> "\"visuals\":", key |-> "visuals"],
     [lex |-> "\"kpi_scores\":", key |-> "kpi_scores"],
     [lex |-> "\"distribution\":", key |-> "distribution"],
     [lex |-> "\"combined_distribution\":", key |-> "combined_distribution"],
     [lex |-> "\"combined_score_percent\":", key |-> "combined_score_percent"] >>

IsStringLexeme(c) == \E k \in 1..Len(StringLexemes) : StringLexemes[k].lex = c
StringOf(c) == StringLexemes[CHOOSE k \in 1..Len(StringLexemes) : StringLexemes[k].lex = c].s
IsKeyLexeme(c) == \E k \in 1..Len(KeyLexemes) : KeyLexemes[k].lex = c
KeyOf(c) == KeyLexemes[CHOOSE k \in 1..Len(KeyLexemes) : KeyLexemes[k].lex = c].key

ParseFail == [ok |-> FALSE, pos |-> 0, val |-> JNull]
ParseOk(pos, val) == [ok |-> TRUE, pos |-> pos, val |-> val]

\* The first position from i on that holds no white space
RECURSIVE SkipWs(_, _)
SkipWs(t, i) == IF i <= Len(t) /\ t[i] \in WhiteSpace THEN SkipWs(t, i + 1) ELSE i

\* The end of the run of digits that starts at i
RECURSIVE DigitsEnd(_, _)
DigitsEnd(t, i) == IF i <= Len(t) /\ IsDigit(t[i]) THEN DigitsEnd(t, i + 1) ELSE i

RECURSIVE DecimalValue(_, _, _, _)
DecimalValue(t, i, j, acc) ==
  IF i >= j THEN acc ELSE DecimalValue(t, i + 1, j, 10 * acc + DigitValue(t[i]))

RECURSIVE ParseValue(_, _)
RECURSIVE ParseItems(_, _, _)
RECURSIVE ParseMembers(_, _, _)

\* value, at position i
ParseValue(t, i) ==
  IF i > Len(t) THEN ParseFail
  ELSE IF t[i] = "{" THEN
    LET j == SkipWs(t, i + 1) IN
    IF j <= Len(t) /\ t[j] = "}" THEN ParseOk(j + 1, JObj(<<>>))
    ELSE ParseMembers(t, j, <<>>)
  ELSE IF t[i] = "[" THEN
    LET j == SkipWs(t, i + 1) IN
    IF j <= Len(t) /\ t[j] = "]" THEN ParseOk(j + 1, JArr(<<>>))
    ELSE ParseItems(t, j, <<>>)
  ELSE IF IsDigit(t[i]) THEN
    LET j == DigitsEnd(t, i) IN
    IF t[i] = "0" /\ j > i + 1 THEN ParseFail
    ELSE ParseOk(j, JNum(DecimalValue(t, i, j, 0)))
  ELSE IF t[i] = "null" THEN ParseOk(i + 1, JNull)
  ELSE IF IsStringLexeme(t[i]) THEN ParseOk(i + 1, JStr(StringOf(t[i])))
  ELSE ParseFail

\* value ws ("," ws value ws)* "]", at position i
ParseItems(t, i, acc) ==
  LET r == ParseValue(t, i) IN
  IF ~r.ok THEN ParseFail
  ELSE
    LET j == SkipWs(t, r.pos)
        items == Append(acc, r.val)
    IN IF j > Len(t) THEN ParseFail
       ELSE IF t[j] = "]" THEN ParseOk(j + 1, JArr(items))
       ELSE IF t[j] = "," THEN ParseItems(t, SkipWs(t, j + 1), items)
       ELSE ParseFail

\* key ws value ws ("," ws key ws value ws)* "}", at position i
ParseMembers(t, i, acc) ==
  IF i > Len(t) \/ ~IsKeyLexeme(t[i]) THEN ParseFail
  ELSE
    LET r == ParseValue(t, SkipWs(t, i + 1)) IN
    IF ~r.ok THEN ParseFail
    ELSE
      LET j == SkipWs(t, r.pos)
          members == Append(acc, [key |-> KeyOf(t[i]), val |-> r.val])
      IN IF j > Len(t) THEN ParseFail
         ELSE IF t[j] = "}" THEN ParseOk(j + 1, JObj(members))
         ELSE IF t[j] = "," THEN ParseMembers(t, SkipWs(t, j + 1), members)
         ELSE ParseFail

\* JSON.parse: ok is FALSE where JSON.parse throws a SyntaxError
JSONParse(t) ==
  LET r == ParseValue(t, SkipWs(t, 1)) IN
  IF r.ok /\ SkipWs(t, r.pos) > Len(t) THEN r ELSE ParseFail

\* obj[key]: the last member of that key, undefined when there is none or
\* when obj is no plain object
Get(obj, key) ==
  IF obj.ty = "object" /\ \E k \in 1..Len(obj.members) : obj.members[k].key = key
    THEN LET last == CHOOSE k \in 1..Len(obj.members) :
                       /\ obj.members[k].key = key
                       /\ \A l \in (k + 1)..Len(obj.members) : obj.members[l].key # key
         IN obj.members[last].val
    ELSE JUndefined

\* ToBoolean
Truthy(v) ==
  CASE v.ty = "undefined" -> FALSE
    [] v.ty = "null" -> FALSE
    [] v.ty = "number" -> v.n # 0
    [] v.ty = "string" -> v.s # <<>>
    [] OTHER -> TRUE

\* typeof v === "object"
TypeofObject(v) == v.ty \in {"object", "array", "null"}

-----------------------------------------------------------------------------
(* Safe parse JSON from AI response *)

\* The lexeme of three backquotes
Fence == "FENCE"

\* t.replace(/^```json\s*/i, "")
StripJsonFence(t) ==
  IF Len(t) >= 2 /\ t[1] = Fence /\ t[2] \in {"json", "JSON"}
    THEN TrimStart(SubSeq(t, 3, Len(t))) ELSE t

\* t.replace(/^```\s*/i, "")
StripOpenFence(t) ==
  IF Len(t) >= 1 /\ t[1] = Fence THEN TrimStart(Tail(t)) ELSE t

\* t.replace(/```$/i, "").trim()
StripCloseFence(t) ==
  Trim(IF Len(t) >= 1 /\ t[Len(t)] = Fence THEN SubSeq(t, 1, Len(t) - 1) ELSE t)

FenceStripped(text) == StripCloseFence(StripOpenFence(StripJsonFence(Trim(text))))

\* t.match(/\{[\s\S]*\}$/): the text from the first "{" to the end of t, when
\* t ends with "}"; <<>> stands for no match
BraceMatch(t) ==
  IF t # <<>> /\ t[Len(t)] = "}" /\ \E i \in 1..Len(t) : t[i] = "{"
    THEN SubSeq(t, IndexOf(t, "{"), Len(t))
    ELSE <<>>

\* null stands both for the parsed value null and for "no value"
safeParseAiJson(text) ==
  IF text = <<>> THEN JNull
  ELSE
    LET t == FenceStripped(text)
        direct == JSONParse(t)
    IN IF direct.ok THEN direct.val
       ELSE LET match == BraceMatch(t) IN
            IF match # <<>> /\ JSONParse(match).ok THEN JSONParse(match).val
            ELSE JNull

-----------------------------------------------------------------------------
(* CSV parser *)

\* text.replace(/\r\n/g, "\n").replace(/\r/g, "\n")
NormalizeNewlines(s) ==
  LET pairs == [i \in 1..Len(s) |-> <<s[i], IF i < Len(s) THEN s[i + 1] ELSE "">>]
      kept == SelectSeq(pairs, LAMBDA p : ~(p[1] = "\r" /\ p[2] = "\n"))
  IN [i \in 1..Len(kept) |-> IF kept[i][1] = "\r" THEN "\n" ELSE kept[i][1]]

\* ScanStep without the escape: every quote opens or closes
ScanStepNoEscape(st, ch, next) ==
  IF ch = "\"" THEN
    [st EXCEPT !.inQuotes = ~@]
  ELSE IF ch = "," /\ ~st.inQuotes THEN
    [st EXCEPT !.row = Append(@, st.current), !.current = <<>>]
  ELSE IF ch = "\n" /\ ~st.inQuotes THEN
    [st EXCEPT !.rows = Append(@, Append(st.row, st.current)), !.row = <<>>,
               !.current = <<>>]
  ELSE
    [st EXCEPT !.current = Append(@, ch)]

\* One turn of the loop of parseCSV, on character ch followed by next.  The
\* skip flag stands for the i++ after an escaped quote.
ScanStep(st, ch, next) ==
  IF st.skip THEN [st EXCEPT !.skip = FALSE]
  ELSE IF ch = "\"" /\ st.inQuotes /\ next = "\"" THEN
    [st EXCEPT !.current = Append(@, "\""), !.skip = TRUE]
  ELSE IF ch = "\"" THEN
    [st EXCEPT !.inQuotes = ~@]
  ELSE IF ch = "," /\ ~st.inQuotes THEN
    [st EXCEPT !.row = Append(@, st.current), !.current = <<>>]
  ELSE IF ch = "\n" /\ ~st.inQuotes THEN
    [st EXCEPT !.rows = Append(@, Append(st.row, st.current)), !.row = <<>>,
               !.current = <<>>]
  ELSE
    [st EXCEPT !.current = Append(@, ch)]

\* The loop of parseCSV over the characters lo..hi, by halves
RECURSIVE ScanCSV(_, _, _, _)
ScanCSV(s, lo, hi, st) ==
  IF lo > hi THEN st
  ELSE IF lo = hi THEN ScanStep(st, s[lo], IF lo < Len(s) THEN s[lo + 1] ELSE "")
  ELSE LET mid == (lo + hi) \div 2
           left == ScanCSV(s, lo, mid, st)
       \* the test has the left half computed before the right half starts
       IN IF left.skip \in BOOLEAN THEN ScanCSV(s, mid + 1, hi, left) ELSE st

parseCSVFlushCellOnly(text) ==
  LET s == NormalizeNewlines(text)
      end == ScanCSV(s, 1, Len(s),
                     [rows |-> <<>>, row |-> <<>>, current |-> <<>>,
                      inQuotes |-> FALSE, skip |-> FALSE])
  IN IF end.current # <<>>
       THEN Append(end.rows, Append(end.row, end.current))
       ELSE end.rows

parseCSV(text) ==
  LET s == NormalizeNewlines(text)
      end == ScanCSV(s, 1, Len(s),
                     [rows |-> <<>>, row |-> <<>>, current |-> <<>>,
                      inQuotes |-> FALSE, skip |-> FALSE])
  IN IF end.current # <<>> \/ end.row # <<>>
       THEN Append(end.rows, Append(end.row, end.current))
       ELSE end.rows

-----------------------------------------------------------------------------
(* Numbers: a JavaScript number is the fraction n/d in lowest terms with
   d > 0, and NaN is 0/0.  Sums and means are exact. *)

NaN == [n |-> 0, d |-> 0]
IsNaN(x) == x.d = 0

Abs(k) == IF k < 0 THEN -k ELSE k

RECURSIVE GCD(_, _)
GCD(a, b) == IF b = 0 THEN a ELSE GCD(b, a % b)

Num(n, d) == LET g == GCD(Abs(n), d) IN [n |-> n \div g, d |-> d \div g]

Zero == Num(0, 1)

Plus(a, b) == Num(a.n * b.d + b.n * a.d, a.d * b.d)

\* a / k, for an integer k > 0
DivideBy(a, k) == Num(a.n, a.d * k)

\* a * k, for an integer k
Times(a, k) == Num(a.n * k, a.d)

\* a >= k and a <= k, for an integer k
AtLeast(a, k) == a.n >= k * a.d
AtMost(a, k) == a.n <= k * a.d

RECURSIVE SumOf(_)
SumOf(xs) == IF xs = <<>> THEN Zero ELSE Plus(Head(xs), SumOf(Tail(xs)))

\* Math.round: the nearest integer, a half rounded up
MathRound(x) == (2 * x.n + x.d) \div (2 * x.d)

\* Number.prototype.toFixed(2), as the number of hundredths it prints
ToFixed2(x) ==
  LET h == (2 * 100 * Abs(x.n) + x.d) \div (2 * x.d) IN IF x.n < 0 THEN -h ELSE h

RECURSIVE Pow10(_)
Pow10(k) == IF k = 0 THEN 1 ELSE 10 * Pow10(k - 1)

\* parseFloat: white space, a sign, digits, a point and digits; NaN when no
\* digit is read.  (Exponents and "Infinity" are not among the cells.)
parseFloat(str) ==
  LET t == TrimStart(str)
      signed == t # <<>> /\ t[1] \in {"-", "+"}
      u == IF signed THEN Tail(t) ELSE t
      i == DigitsEnd(u, 1)
      hasPoint == i <= Len(u) /\ u[i] = "."
      j == IF hasPoint THEN DigitsEnd(u, i + 1) ELSE i
      intDigits == i - 1
      fracDigits == IF hasPoint THEN j - i - 1 ELSE 0
      whole == DecimalValue(u, 1, i, 0)
      frac == IF hasPoint THEN DecimalValue(u, i + 1, j, 0) ELSE 0
      magnitude == whole * Pow10(fracDigits) + frac
  IN IF intDigits + fracDigits = 0 THEN NaN
     ELSE Num(IF signed /\ t[1] = "-" THEN -magnitude ELSE magnitude, Pow10(fracDigits))

-----------------------------------------------------------------------------
(* Aggregator *)

\* The column names of the monitoring sheet
COL ==
  [ activity |-> <<"a", "c", "t", "i", "v", "i", "t", "y", " ", "i", "m", "p", "l", "e", "m", "e", "n", "t", "a", "t", "i", "o", "n", " ", "o", "n", " ", "s", "c", "h", "e", "d", "u", "l", "e">>,
    budget |-> <<"b", "u", "d", "g", "e", "t", " ", "u", "t", "i", "l", "i", "z", "a", "t", "i", "o", "n", " ", "a", "s", " ", "p", "l", "a", "n", "n", "e", "d">>,
    staff |-> <<"s", "t", "a", "f", "f", " ", "a", "v", "a", "i", "l", "a", "b", "i", "l", "i", "t", "y">>,
    community |-> <<"c", "o", "m", "m", "u", "n", "i", "t", "y", " ", "p", "a", "r", "t", "i", "c", "i", "p", "a", "t", "i", "o", "n">>,
    coordination |-> <<"c", "o", "o", "r", "d", "i", "n", "a", "t", "i", "o", "n", " ", "w", "i", "t", "h", " ", "p", "a", "r", "t", "n", "e", "r", "s">>,
    reporting_date |-> <<"r", "e", "p", "o", "r", "t", "i", "n", "g", " ", "d", "a", "t", "e">>,
    beneficiaries |-> <<"n", "u", "m", "b", "e", "r", " ", "o", "f", " ", "b", "e", "n", "e", "f", "i", "c", "i", "a", "r", "i", "e", "s", " ", "r", "e", "a", "c", "h", "e", "d", " ", "t", "h", "i", "s", " ", "p", "e", "r", "i", "o", "d", ".">>,
    achievements |-> <<"m", "a", "i", "n", " ", "a", "c", "h", "i", "e", "v", "e", "m", "e", "n", "t", "s", " ", "t", "h", "i", "s", " ", "p", "e", "r", "i", "o", "d", ".">>,
    challenges |-> <<"k", "e", "y", " ", "c", "h", "a", "l", "l", "e", "n", "g", "e", "s", " ", "/", " ", "r", "i", "s", "k", "s">>,
    actions |-> <<"i", "m", "m", "e", "d", "i", "a", "t", "e", " ", "a", "c", "t", "i", "o", "n", "s", " ", "r", "e", "q", "u", "i", "r", "e", "d", " ", "/", " ", "r", "e", "c", "o", "m", "m", "e", "n", "d", "a", "t", "i", "o", "n", "s">> ]
\* The substrings that find the columns of the evaluation sheet
SUB ==
  [ outcome |-> <<"o", "u", "t", "c", "o", "m", "e">>,
    impact |-> <<"i", "m", "p", "a", "c", "t">>,
    rating |-> <<"r", "a", "t", "i", "n", "g">>,
    overall |-> <<"o", "v", "e", "r", "a", "l", "l">>,
    performance |-> <<"p", "e", "r", "f", "o", "r", "m", "a", "n", "c", "e">>,
    phase |-> <<"p", "h", "a", "s", "e">> ]

\* r[idx], "" when the row has no such cell (idx is 1-based and not 0)
RawCell(r, idx) == IF idx <= Len(r) THEN r[idx] ELSE <<>>

LowerHeaders(header) == [i \in 1..Len(header) |-> safeLower(header[i])]

\* The numeric cells of column idx, in row order
RECURSIVE NumericCells(_, _)
NumericCells(data, idx) ==
  IF data = <<>> THEN <<>>
  ELSE LET v == parseFloat(RawCell(Head(data), idx)) IN
       (IF IsNaN(v) THEN <<>> ELSE <<v>>) \o NumericCells(Tail(data), idx)

averageNumericColumn(header, data, colNameLower) ==
  LET idx == IndexOf(LowerHeaders(header), colNameLower) IN
  IF idx = 0 THEN Zero
  ELSE LET vals == NumericCells(data, idx) IN
       IF Len(vals) # 0 THEN DivideBy(SumOf(vals), Len(vals)) ELSE Zero

RatingMax == 5

percentFromRatingUnclamped(avgRating) ==
  IF avgRating.n = 0 \/ IsNaN(avgRating) THEN Zero
  ELSE DivideBy(Times(avgRating, 100), RatingMax)

percentFromRating(avgRating) ==
  IF avgRating.n = 0 \/ IsNaN(avgRating) THEN Zero
  ELSE LET pct == DivideBy(Times(avgRating, 100), RatingMax) IN
       IF AtMost(pct, 0) THEN Zero
       ELSE IF AtLeast(pct, 100) THEN Num(100, 1)
       ELSE pct

\* Array.prototype.findIndex over the lower-cased headers: the first index in
\* hits, 0 when there is none
FirstOf(hits) == IF hits = {} THEN 0 ELSE CHOOSE i \in hits : \A j \in hits : i <= j

IdxOutcome(headersLower) ==
  FirstOf({i \in 1..Len(headersLower) :
             Includes(headersLower[i], SUB.outcome) /\ Includes(headersLower[i], SUB.rating)})

IdxImpact(headersLower) ==
  FirstOf({i \in 1..Len(headersLower) :
             Includes(headersLower[i], SUB.impact) /\ Includes(headersLower[i], SUB.rating)})

IdxPerf(headersLower) ==
  LET first == FirstOf({i \in 1..Len(headersLower) :
                          /\ \/ Includes(headersLower[i], SUB.overall)
                             \/ Includes(headersLower[i], SUB.performance)
                          /\ Includes(headersLower[i], SUB.rating)})
  IN IF first = 0
       THEN FirstOf({i \in 1..Len(headersLower) : Includes(headersLower[i], SUB.rating)})
       ELSE first

\* idx !== -1 ? averageNumericColumn(header, data, headersLower[idx]) : 0
AverageAt(header, data, idx) ==
  IF idx # 0 THEN averageNumericColumn(header, data, LowerHeaders(header)[idx]) ELSE Zero

-----------------------------------------------------------------------------
(* Summary composer: the summary text, as the values its template prints *)

NoMonitoringSheet == <<"No monitoring sheet loaded.">>
NoMonitoringMatch == <<"No matching monitoring records for current filters.">>
NoEvaluationSheet == <<"No evaluation sheet loaded.">>
NoEvaluationMatch == <<"No matching evaluation records for current filters.">>

\* data.slice(-5).reverse()
LatestCount == 5
Latest(data) ==
  LET k == IF Len(data) < LatestCount THEN Len(data) ELSE LatestCount
  IN [i \in 1..k |-> data[Len(data) - i + 1]]

\* idx !== -1 ? r[idx] || "" : ifAbsent
Shown(r, idx, ifAbsent) == IF idx # 0 THEN RawCell(r, idx) ELSE ifAbsent

\* parseFloat(r[idxBenef] || "0"), NaN counted as nothing
RECURSIVE TotalBeneficiaries(_, _)
TotalBeneficiaries(data, idxBenef) ==
  IF data = <<>> \/ idxBenef = 0 THEN Zero
  ELSE LET cell == RawCell(Head(data), idxBenef)
           b == parseFloat(IF cell = <<>> THEN <<"0">> ELSE cell)
       IN Plus(IF IsNaN(b) THEN Zero ELSE b, TotalBeneficiaries(Tail(data), idxBenef))

summariseMonitoringDataFirst(header, data) ==
  IF Len(data) = 0 THEN [text |-> NoMonitoringMatch]
  ELSE IF Len(header) = 0 THEN [text |-> NoMonitoringSheet]
  ELSE [records |-> Len(data)]

summariseMonitoring(header, data) ==
  IF Len(header) = 0 THEN [text |-> NoMonitoringSheet]
  ELSE IF Len(data) = 0 THEN [text |-> NoMonitoringMatch]
  ELSE
    LET headersLower == LowerHeaders(header)
        idxDate == IndexOf(headersLower, COL.reporting_date)
        idxBenef == IndexOf(headersLower, COL.beneficiaries)
        idxAch == IndexOf(headersLower, COL.achievements)
        idxChal == IndexOf(headersLower, COL.challenges)
        idxActn == IndexOf(headersLower, COL.actions)
        latest == Latest(data)
    IN [ records |-> Len(data),
         totalBenef |-> TotalBeneficiaries(data, idxBenef),
         avgAct |-> ToFixed2(averageNumericColumn(header, data, COL.activity)),
         avgBud |-> ToFixed2(averageNumericColumn(header, data, COL.budget)),
         avgStaff |-> ToFixed2(averageNumericColumn(header, data, COL.staff)),
         avgComm |-> ToFixed2(averageNumericColumn(header, data, COL.community)),
         avgCoord |-> ToFixed2(averageNumericColumn(header, data, COL.coordination)),
         latestLines |-> [i \in 1..Len(latest) |->
                            [ dt |-> Shown(latest[i], idxDate, <<>>),
                              ach |-> Shown(latest[i], idxAch, <<>>),
                              chal |-> Shown(latest[i], idxChal, <<>>),
                              actn |-> Shown(latest[i], idxActn, <<>>) ]] ]

NotAvailable == <<"N/A">>

summariseEvaluation(header, data) ==
  IF Len(header) = 0 THEN [text |-> NoEvaluationSheet]
  ELSE IF Len(data) = 0 THEN [text |-> NoEvaluationMatch]
  ELSE
    LET headersLower == LowerHeaders(header)
        idxOutcome == IdxOutcome(headersLower)
        idxImpact == IdxImpact(headersLower)
        idxPerf == IdxPerf(headersLower)
        phaseIdx == FirstOf({i \in 1..Len(headersLower) : Includes(headersLower[i], SUB.phase)})
        latest == Latest(data)
    IN [ records |-> Len(data),
         avgOutcome |-> ToFixed2(AverageAt(header, data, idxOutcome)),
         avgImpact |-> ToFixed2(AverageAt(header, data, idxImpact)),
         avgPerf |-> ToFixed2(AverageAt(header, data, idxPerf)),
         latestLines |-> [i \in 1..Len(latest) |->
                            [ phase |-> Shown(latest[i], phaseIdx, <<>>),
                              out |-> Shown(latest[i], idxOutcome, NotAvailable),
                              imp |-> Shown(latest[i], idxImpact, NotAvailable),
                              perf |-> Shown(latest[i], idxPerf, NotAvailable) ]] ]

-----------------------------------------------------------------------------
(* Visuals builder *)

NoDistribution == [good |-> 0, watch |-> 0, poor |-> 0]

GoodFrom == 4
PoorUpTo == 2

\* The bucket of a row mean
Bucket(mean) ==
  IF AtLeast(mean, GoodFrom) THEN "good"
  ELSE IF AtMost(mean, PoorUpTo) THEN "poor"
  ELSE "watch"

\* The numeric values of row r in the columns idxs that were found
RECURSIVE RowValues(_, _)
RowValues(r, idxs) ==
  IF idxs = <<>> THEN <<>>
  ELSE LET v == IF Head(idxs) # 0 THEN parseFloat(RawCell(r, Head(idxs))) ELSE NaN IN
       (IF IsNaN(v) THEN <<>> ELSE <<v>>) \o RowValues(r, Tail(idxs))

Mean(vals) == DivideBy(SumOf(vals), Len(vals))

\* The monitoring bucket of row r: "none" when it has no numeric rating
MonitoringBucket(r, idxs) ==
  LET vals == RowValues(r, idxs) IN
  IF Len(vals) = 0 THEN "none" ELSE Bucket(Mean(vals))

\* The evaluation bucket of row r
EvaluationBucketByColumn(r, idxPerf, idxOutcome, idxImpact) ==
  LET perfVal == IF idxPerf # 0 THEN parseFloat(RawCell(r, idxPerf)) ELSE NaN
      vals == RowValues(r, <<idxOutcome, idxImpact>>)
      value == IF idxPerf # 0 THEN perfVal
               ELSE IF Len(vals) # 0 THEN Mean(vals) ELSE NaN
  IN IF IsNaN(value) THEN "none" ELSE Bucket(value)

EvaluationBucket(r, idxPerf, idxOutcome, idxImpact) ==
  LET perfVal == IF idxPerf # 0 THEN parseFloat(RawCell(r, idxPerf)) ELSE NaN
      vals == RowValues(r, <<idxOutcome, idxImpact>>)
      value == IF ~IsNaN(perfVal) THEN perfVal
               ELSE IF Len(vals) # 0 THEN Mean(vals) ELSE NaN
  IN IF IsNaN(value) THEN "none" ELSE Bucket(value)

CountOf(buckets, b) == Cardinality({i \in 1..Len(buckets) : buckets[i] = b})

Distribution(buckets) ==
  [good |-> CountOf(buckets, "good"), watch |-> CountOf(buckets, "watch"),
   poor |-> CountOf(buckets, "poor")]

Kpi(label, percent) == [label |-> label, percent |-> percent]

\* Math.round of the mean of the positive percents, 0 when there is none
MeanOfPositive(percents) ==
  LET available == SelectSeq(percents, LAMBDA p : p > 0)
      total == SumOf([i \in 1..Len(available) |-> Num(available[i], 1)])
  IN IF Len(available) # 0 THEN MathRound(DivideBy(total, Len(available))) ELSE 0

computeVisualsFromMonitoring(header, data) ==
  IF Len(header) = 0 \/ Len(data) = 0
    THEN [kpi_scores |-> <<>>, distribution |-> NoDistribution]
  ELSE
    LET headersLower == LowerHeaders(header)
        names == <<COL.activity, COL.budget, COL.staff, COL.community, COL.coordination>>
        idxs == [k \in 1..Len(names) |-> IndexOf(headersLower, names[k])]
        pcts == [k \in 1..Len(names) |->
                   MathRound(percentFromRating(averageNumericColumn(header, data, names[k])))]
        pctOverall == MeanOfPositive(pcts)
    IN [ kpi_scores |->
           << Kpi("Activity", pcts[1]), Kpi("Budget", pcts[2]), Kpi("Staff", pcts[3]),
              Kpi("Community", pcts[4]), Kpi("Coordination", pcts[5]),
              Kpi("Overall", pctOverall) >>,
         distribution |->
           Distribution([i \in 1..Len(data) |-> MonitoringBucket(data[i], idxs)]) ]

computeVisualsFromEvaluation(header, data) ==
  IF Len(header) = 0 \/ Len(data) = 0
    THEN [kpi_scores |-> <<>>, distribution |-> NoDistribution]
  ELSE
    LET headersLower == LowerHeaders(header)
        idxOutcome == IdxOutcome(headersLower)
        idxImpact == IdxImpact(headersLower)
        idxPerf == IdxPerf(headersLower)
    IN [ kpi_scores |->
           << Kpi("Outcome", MathRound(percentFromRating(AverageAt(header, data, idxOutcome)))),
              Kpi("Impact", MathRound(percentFromRating(AverageAt(header, data, idxImpact)))),
              Kpi("Performance", MathRound(percentFromRating(AverageAt(header, data, idxPerf)))) >>,
         distribution |->
           Distribution([i \in 1..Len(data) |->
                           EvaluationBucket(data[i], idxPerf, idxOutcome, idxImpact)]) ]

mergeVisualsOverAll(monVisuals, evalVisuals) ==
  LET m == monVisuals.distribution
      e == evalVisuals.distribution
      percents == [i \in 1..Len(monVisuals.kpi_scores) |-> monVisuals.kpi_scores[i].percent]
                  \o [i \in 1..Len(evalVisuals.kpi_scores) |-> evalVisuals.kpi_scores[i].percent]
      total == SumOf([i \in 1..Len(percents) |-> Num(percents[i], 1)])
  IN [ combined_score_percent |->
         IF Len(percents) # 0 THEN MathRound(DivideBy(total, Len(percents))) ELSE 0,
       combined_distribution |->
         [good |-> m.good + e.good, watch |-> m.watch + e.watch, poor |-> m.poor + e.poor] ]

mergeVisuals(monVisuals, evalVisuals) ==
  LET m == monVisuals.distribution
      e == evalVisuals.distribution
      percents == [i \in 1..Len(monVisuals.kpi_scores) |-> monVisuals.kpi_scores[i].percent]
                  \o [i \in 1..Len(evalVisuals.kpi_scores) |-> evalVisuals.kpi_scores[i].percent]
  IN [ combined_score_percent |-> MeanOfPositive(percents),
       combined_distribution |->
         [good |-> m.good + e.good, watch |-> m.watch + e.watch, poor |-> m.poor + e.poor] ]

-----------------------------------------------------------------------------
(* MEL intent router *)

\* The keywords of detectMELIntent
KW ==
  [ what_is |-> <<"w", "h", "a", "t", " ", "i", "s">>,
    define |-> <<"d", "e", "f", "i", "n", "e">>,
    meaning_of |-> <<"m", "e", "a", "n", "i", "n", "g", " ", "o", "f">>,
    draft |-> <<"d", "r", "a", "f", "t">>,
    create |-> <<"c", "r", "e", "a", "t", "e">>,
    develop |-> <<"d", "e", "v", "e", "l", "o", "p">>,
    design |-> <<"d", "e", "s", "i", "g", "n">>,
    template |-> <<"t", "e", "m", "p", "l", "a", "t", "e">>,
    tool |-> <<"t", "o", "o", "l">>,
    instrument |-> <<"i", "n", "s", "t", "r", "u", "m", "e", "n", "t">>,
    survey |-> <<"s", "u", "r", "v", "e", "y">>,
    questionnaire |-> <<"q", "u", "e", "s", "t", "i", "o", "n", "n", "a", "i", "r", "e">>,
    interview_questions |-> <<"i", "n", "t", "e", "r", "v", "i", "e", "w", " ", "q", "u", "e", "s", "t", "i", "o", "n", "s">>,
    evaluation_questions |-> <<"e", "v", "a", "l", "u", "a", "t", "i", "o", "n", " ", "q", "u", "e", "s", "t", "i", "o", "n", "s">>,
    indicators |-> <<"i", "n", "d", "i", "c", "a", "t", "o", "r", "s">>,
    kpi |-> <<"k", "p", "i">>,
    logframe |-> <<"l", "o", "g", "f", "r", "a", "m", "e">>,
    logical_framework |-> <<"l", "o", "g", "i", "c", "a", "l", " ", "f", "r", "a", "m", "e", "w", "o", "r", "k">>,
    theory_of_change |-> <<"t", "h", "e", "o", "r", "y", " ", "o", "f", " ", "c", "h", "a", "n", "g", "e">>,
    toc |-> <<"t", "o", "c">>,
    sampling |-> <<"s", "a", "m", "p", "l", "i", "n", "g">>,
    methodology |-> <<"m", "e", "t", "h", "o", "d", "o", "l", "o", "g", "y">>,
    tor |-> <<"t", "o", "r">>,
    terms_of_reference |-> <<"t", "e", "r", "m", "s", " ", "o", "f", " ", "r", "e", "f", "e", "r", "e", "n", "c", "e">>,
    data_collection |-> <<"d", "a", "t", "a", " ", "c", "o", "l", "l", "e", "c", "t", "i", "o", "n">>,
    report |-> <<"r", "e", "p", "o", "r", "t">>,
    evaluation_report |-> <<"e", "v", "a", "l", "u", "a", "t", "i", "o", "n", " ", "r", "e", "p", "o", "r", "t">>,
    mel_report |-> <<"m", "e", "l", " ", "r", "e", "p", "o", "r", "t">>,
    dashboard |-> <<"d", "a", "s", "h", "b", "o", "a", "r", "d">>,
    trend |-> <<"t", "r", "e", "n", "d">>,
    performance |-> <<"p", "e", "r", "f", "o", "r", "m", "a", "n", "c", "e">>,
    interpret |-> <<"i", "n", "t", "e", "r", "p", "r", "e", "t">>,
    explain_the_data |-> <<"e", "x", "p", "l", "a", "i", "n", " ", "t", "h", "e", " ", "d", "a", "t", "a">>,
    why_is |-> <<"w", "h", "y", " ", "i", "s">>,
    why_are |-> <<"w", "h", "y", " ", "a", "r", "e">>,
    what_does_the_data_say |-> <<"w", "h", "a", "t", " ", "d", "o", "e", "s", " ", "t", "h", "e", " ", "d", "a", "t", "a", " ", "s", "a", "y">>,
    lessons_learned |-> <<"l", "e", "s", "s", "o", "n", "s", " ", "l", "e", "a", "r", "n", "e", "d">>,
    after_action |-> <<"a", "f", "t", "e", "r", " ", "a", "c", "t", "i", "o", "n">>,
    learning_agenda |-> <<"l", "e", "a", "r", "n", "i", "n", "g", " ", "a", "g", "e", "n", "d", "a">> ]

DefinitionPrefixes == { KW.what_is, KW.define }
DefinitionKeywords == { KW.meaning_of }
ToolsKeywords ==
  { KW.draft, KW.create, KW.develop,
    KW.design, KW.template, KW.tool,
    KW.instrument, KW.survey, KW.questionnaire,
    KW.interview_questions, KW.evaluation_questions, KW.indicators,
    KW.kpi, KW.logframe, KW.logical_framework,
    KW.theory_of_change, KW.toc, KW.sampling,
    KW.methodology, KW.tor, KW.terms_of_reference,
    KW.data_collection }
ReportKeywords == { KW.report, KW.evaluation_report, KW.mel_report }
DashboardKeywords ==
  { KW.dashboard, KW.trend, KW.performance,
    KW.interpret, KW.explain_the_data, KW.why_is,
    KW.why_are, KW.what_does_the_data_say }
LearningKeywords == { KW.lessons_learned, KW.after_action, KW.learning_agenda }

IncludesAny(m, keywords) == \E k \in keywords : Includes(m, k)

\* String(message || "").toLowerCase().trim()
IntentText(message) == Trim(ToLowerCase(message))

detectMELIntentSwapped(message) ==
  LET m == IntentText(message) IN
  IF (\E k \in DefinitionPrefixes : StartsWith(m, k)) \/ IncludesAny(m, DefinitionKeywords)
    THEN "DEFINITION"
  ELSE IF IncludesAny(m, ReportKeywords) THEN "REPORT"
  ELSE IF IncludesAny(m, ToolsKeywords) THEN "TOOLS"
  ELSE IF IncludesAny(m, DashboardKeywords) THEN "DASHBOARD_ANALYSIS"
  ELSE IF IncludesAny(m, LearningKeywords) THEN "LEARNING"
  ELSE "HOW_TO"

detectMELIntent(message) ==
  LET m == IntentText(message) IN
  IF (\E k \in DefinitionPrefixes : StartsWith(m, k)) \/ IncludesAny(m, DefinitionKeywords)
    THEN "DEFINITION"
  ELSE IF IncludesAny(m, ToolsKeywords) THEN "TOOLS"
  ELSE IF IncludesAny(m, ReportKeywords) THEN "REPORT"
  ELSE IF IncludesAny(m, DashboardKeywords) THEN "DASHBOARD_ANALYSIS"
  ELSE IF IncludesAny(m, LearningKeywords) THEN "LEARNING"
  ELSE "HOW_TO"

-----------------------------------------------------------------------------
(* Values of the chat handler: String(v), Array.prototype.join *)

RECURSIVE ToStr(_)
RECURSIVE JoinItems(_, _)

\* String(v)
ToStr(v) ==
  CASE v.ty = "string" -> v.s
    [] v.ty = "number" -> <<ToString(v.n)>>
    [] v.ty = "null" -> <<"null">>
    [] v.ty = "undefined" -> <<"undefined">>
    [] v.ty = "array" -> JoinItems(v.items, <<",">>)
    [] v.ty = "object" -> <<"[object Object]">>

\* items.join(sep): a null or undefined item prints as nothing
JoinItems(items, sep) ==
  IF items = <<>> THEN <<>>
  ELSE LET first == IF Head(items).ty \in {"null", "undefined"} THEN <<>>
                    ELSE ToStr(Head(items))
       IN IF Len(items) = 1 THEN first
          ELSE first \o sep \o JoinItems(Tail(items), sep)

-----------------------------------------------------------------------------
(* Extract output text robustly *)

\* The strings pushed for the entries of one content array
RECURSIVE ContentChunks(_)
ContentChunks(content) ==
  IF content = <<>> THEN <<>>
  ELSE LET c == Head(content)
           text == Get(c, "text")
           inner == Get(c, "content")
       IN (IF text.ty = "string" THEN <<text>> ELSE <<>>)
          \o (IF inner.ty = "string" THEN <<inner>> ELSE <<>>)
          \o ContentChunks(Tail(content))

\* The strings pushed for the items of data.output
RECURSIVE OutputChunks(_)
OutputChunks(out) ==
  IF out = <<>> THEN <<>>
  ELSE LET content == Get(Head(out), "content") IN
       (IF content.ty = "array" THEN ContentChunks(content.items) ELSE <<>>)
       \o OutputChunks(Tail(out))

extractResponseText(data) ==
  IF ~Truthy(data) THEN <<>>
  ELSE
    LET output_text == Get(data, "output_text")
        output == Get(data, "output")
        out == IF output.ty = "array" THEN output.items ELSE <<>>
    IN IF output_text.ty = "string" /\ Trim(output_text.s) # <<>> THEN output_text.s
       ELSE Trim(JoinItems(OutputChunks(out), <<"\n">>))

-----------------------------------------------------------------------------
(* Intent output rules and the prompt of POST /api/pas-ai-chat.  An intent is
   the one-symbol string of its name; a text built from a template is the
   record of the values the template prints. *)

\* Each rule text, named by its first line
getIntentOutputRules(intent) ==
  CASE intent = <<"DEFINITION">> -> "INTENT: DEFINITION"
    [] intent = <<"TOOLS">> -> "INTENT: TOOLS"
    [] intent = <<"DASHBOARD_ANALYSIS">> -> "INTENT: DASHBOARD_ANALYSIS"
    [] intent = <<"REPORT">> -> "INTENT: REPORT"
    [] intent = <<"LEARNING">> -> "INTENT: LEARNING"
    [] OTHER -> "INTENT: HOW_TO"

\* (intent_override && String(intent_override).trim()) || detectMELIntent(message)
RequestIntent(message, intent_override) ==
  IF intent_override # <<>> /\ Trim(intent_override) # <<>> THEN Trim(intent_override)
  ELSE <<detectMELIntent(message)>>

includeLiveDataUnlessDefinition(intent) == intent # <<"DEFINITION">>

includeLiveDataInPrompt(intent) ==
  intent = <<"REPORT">> \/ intent = <<"DASHBOARD_ANALYSIS">>

\* filters?.x || "All"
OrAll(criterion) == IF criterion # <<>> THEN criterion ELSE <<"All">>

filterText(filters) ==
  [ location |-> OrAll(filters.location), period |-> OrAll(filters.period),
    project |-> OrAll(filters.project) ]

SYSTEM_PROMPT == "You are ProMEL AI, a Monitoring, Evaluation & Learning (MEL) assistant for Papua New Guinea projects."

LiveNotProvided == "NOTE: LIVE summaries are intentionally NOT provided for this request."

liveDataBlock(include, filters, monitoringSummary, evaluationSummary) ==
  IF include
    THEN [ filterText |-> filterText(filters),
           monitoringSummary |-> monitoringSummary,
           evaluationSummary |-> evaluationSummary ]
    ELSE [ note |-> LiveNotProvided ]

visualsBlock(monVisuals, evalVisuals, combinedVisuals) ==
  [ monitoring_kpi_scores |-> monVisuals.kpi_scores,
    monitoring_distribution |-> monVisuals.distribution,
    evaluation_kpi_scores |-> evalVisuals.kpi_scores,
    evaluation_distribution |-> evalVisuals.distribution,
    combined_score_percent |-> combinedVisuals.combined_score_percent,
    combined_distribution |-> combinedVisuals.combined_distribution ]

\* The one element of a singleton.  In TheOne({ f(x) : x \in {e} }) the value
\* of e is computed once and f reads it, where LET x == e would have e
\* computed again at each place f reads x.
TheOne(S) == CHOOSE x \in S : TRUE

\* Lines 1414-1544: the summaries, the visuals, the intent and the prompt
PreparedFromData(body, monFiltered, evalFiltered, monitoringSummary, evaluationSummary, monVisuals, evalVisuals) ==
  LET combinedVisuals == mergeVisuals(monVisuals, evalVisuals)
      intent == RequestIntent(body.message, body.intent_override)
  IN [ monRecords |-> Len(monFiltered.data),
       evalRecords |-> Len(evalFiltered.data),
       monitoringSummary |-> monitoringSummary,
       evaluationSummary |-> evaluationSummary,
       monVisuals |-> monVisuals,
       evalVisuals |-> evalVisuals,
       combinedVisuals |-> combinedVisuals,
       intent |-> intent,
       systemPrompt |-> SYSTEM_PROMPT,
       userPrompt |->
         [ intentRules |-> getIntentOutputRules(intent),
           liveDataBlock |-> liveDataBlock(includeLiveDataInPrompt(intent), body.filters,
                                           monitoringSummary, evaluationSummary),
           visualsBlock |-> visualsBlock(monVisuals, evalVisuals, combinedVisuals),
           message |-> body.message ] ]

\* Lines 1411-1418
PreparedFromRows(body, monRows, evalRows) ==
  TheOne({ TheOne({ PreparedFromData(body, monFiltered, evalFiltered,
                                     monitoringSummary, evaluationSummary,
                                     monVisuals, evalVisuals) :
                      monitoringSummary \in
                        {summariseMonitoring(monFiltered.header, monFiltered.data)},
                      evaluationSummary \in
                        {summariseEvaluation(evalFiltered.header, evalFiltered.data)},
                      monVisuals \in
                        {computeVisualsFromMonitoring(monFiltered.header, monFiltered.data)},
                      evalVisuals \in
                        {computeVisualsFromEvaluation(evalFiltered.header, evalFiltered.data)} }) :
             monFiltered \in {filterMonitoringRows(monRows, body.filters)},
             evalFiltered \in {filterEvaluationRows(evalRows, body.filters)} })

\* The handler's constants from the fetched texts to the prompt, lines
\* 1408-1544: everything it holds when it calls the model
Prepared(body, monCsvText, evalCsvText) ==
  TheOne({ PreparedFromRows(body, monRows, evalRows) :
             monRows \in {parseCSV(monCsvText)}, evalRows \in {parseCSV(evalCsvText)} })

-----------------------------------------------------------------------------
(* Payloads of POST /api/pas-ai-chat *)

Response(status, body) == [status |-> status, body |-> body]

MissingMessage == Response(400, [success |-> FALSE, error |-> "Missing \"message\" in request body"])

MissingKey == Response(500, [success |-> FALSE, error |-> "OPENAI_API_KEY is not set on the server."])

ServerError == Response(500, [success |-> FALSE, error |-> "Server error in /api/pas-ai-chat"])

\* errorBody?.error?.message || `OpenAI API error (status ${status})`
ModelError(status, errorBody) ==
  LET message == Get(Get(errorBody, "error"), "message") IN
  Response(status,
           [ success |-> FALSE,
             error |-> IF Truthy(message) THEN message
                       ELSE JStr(<<"OpenAI API error (status ", ToString(status), ")">>),
             status |-> status ])

NoUsableJson == <<"AI returned no usable JSON. Showing raw response.">>

NotValidJsonNote == "AI response was not valid JSON; returned raw text + backend visuals."

DefaultTitle == <<"ProMEL MEL Output">>

DefaultFindings ==
  JArr(<< JStr(<<"Clear MEL concepts and tools improve decision-making and accountability throughout the project cycle.">>),
          JStr(<<"Using fit-for-purpose indicators and data collection methods increases the reliability of findings and learning.">>),
          JStr(<<"Regular reflection and adaptive action planning strengthens outcomes and sustainability over time.">>) >>)

DefaultRecs ==
  JArr(<< JStr(<<"Use an intent-based approach: definitions, tools, analysis, and reports should be produced only when requested.">>),
          JStr(<<"Standardize templates (indicators, tools, learning notes) so teams apply MEL consistently across projects.">>),
          JStr(<<"Institutionalize periodic learning reviews and management action tracking to close feedback loops.">>) >>)

\* (v && String(v).trim()) || ifNot
TrimmedOr(v, ifNot) ==
  IF Truthy(v) /\ Trim(ToStr(v)) # <<>> THEN Trim(ToStr(v)) ELSE ifNot

safeTitle(aiJson) == TrimmedOr(Get(aiJson, "report_title"), DefaultTitle)

safeFindingsAnyArray(aiJson) ==
  LET key_findings == Get(aiJson, "key_findings") IN
  IF key_findings.ty = "array" THEN key_findings ELSE DefaultFindings

safeFindings(aiJson) ==
  LET key_findings == Get(aiJson, "key_findings") IN
  IF key_findings.ty = "array" /\ Len(key_findings.items) # 0 THEN key_findings
  ELSE DefaultFindings

safeRecs(aiJson) ==
  LET recommendations == Get(aiJson, "recommendations") IN
  IF recommendations.ty = "array" /\ Len(recommendations.items) # 0 THEN recommendations
  ELSE DefaultRecs

replyTextRaw(aiJson) == TrimmedOr(Get(aiJson, "report_markdown"), <<>>)

replyTextUnsynthesized(aiJson) == replyTextRaw(aiJson)

replyText(aiJson) ==
  IF replyTextRaw(aiJson) # <<>> THEN replyTextRaw(aiJson)
  ELSE <<"#", " ">> \o safeTitle(aiJson) \o <<"\n", "\n">>
       \o <<"## Key Findings", "\n", "-", " ">>
       \o JoinItems(safeFindings(aiJson).items, <<"\n", "-", " ">>) \o <<"\n", "\n">>
       \o <<"## Recommendations", "\n", "-", " ">>
       \o JoinItems(safeRecs(aiJson).items, <<"\n", "-", " ">>) \o <<"\n">>

\* The visuals of both success payloads
LocalVisuals(local) ==
  [ kpi_scores |-> local.monVisuals.kpi_scores,
    distribution |-> local.monVisuals.distribution,
    combined_score_percent |-> local.combinedVisuals.combined_score_percent,
    combined_distribution |-> local.combinedVisuals.combined_distribution ]

FallbackPayloadRawOnly(rawText, local, filters) ==
  Response(200,
           [ success |-> TRUE,
             reply |-> rawText,
             visuals |-> LocalVisuals(local),
             used_filters |-> filters,
             monitoring_records_used |-> local.monRecords,
             evaluation_records_used |-> local.evalRecords,
             note |-> NotValidJsonNote ])

\* The payload of lines 1600-1613
FallbackPayload(rawText, local, filters) ==
  Response(200,
           [ success |-> TRUE,
             reply |-> IF rawText # <<>> THEN rawText ELSE NoUsableJson,
             visuals |-> LocalVisuals(local),
             used_filters |-> filters,
             monitoring_records_used |-> local.monRecords,
             evaluation_records_used |-> local.evalRecords,
             note |-> NotValidJsonNote ])

PayloadVisualsFromModel(aiJson, local) ==
  IF Truthy(Get(aiJson, "visuals")) THEN Get(aiJson, "visuals") ELSE LocalVisuals(local)

\* visuals of the payload of lines 1650-1655
PayloadVisuals(aiJson, local) == LocalVisuals(local)

\* The payload of lines 1644-1660
ParsedPayload(aiJson, local, filters) ==
  Response(200,
           [ success |-> TRUE,
             reply |-> replyText(aiJson),
             report_title |-> safeTitle(aiJson),
             key_findings |-> safeFindings(aiJson),
             recommendations |-> safeRecs(aiJson),
             visuals |-> PayloadVisuals(aiJson, local),
             used_filters |-> filters,
             monitoring_records_used |-> local.monRecords,
             evaluation_records_used |-> local.evalRecords,
             detected_intent |-> local.intent ])

\* Lines 1599-1660
ReconciledFrom(rawText, aiJson, local, filters) ==
  IF ~Truthy(aiJson) \/ ~TypeofObject(aiJson)
    THEN FallbackPayload(rawText, local, filters)
    ELSE ParsedPayload(aiJson, local, filters)

\* What lines 1592-1660 answer to the body data of a model response
Reconciled(data, local, filters) ==
  TheOne({ TheOne({ ReconciledFrom(rawText, aiJson, local, filters) :
                      aiJson \in {safeParseAiJson(rawText)} }) :
             rawText \in {extractResponseText(data)} })

-----------------------------------------------------------------------------
(* Inputs of the row-filter calls *)

\* Header cells as the sheets spell them
HEADER ==
  [ Project_Name_padded |-> <<" ", "P", "r", "o", "j", "e", "c", "t", " ", "N", "a", "m", "e", " ">>,
    REPORTING_PERIOD |-> <<"R", "E", "P", "O", "R", "T", "I", "N", "G", " ", "P", "E", "R", "I", "O", "D">>,
    Location_mixed |-> <<"P", "r", "o", "v", "i", "n", "c", "e", " ", "/", " ", "D", "i", "s", "t", "r", "i", "c", "t", " ", "/", " ", "L", "o", "c", "a", "t", "i", "o", "n">>,
    region |-> <<"r", "e", "g", "i", "o", "n">> ]

FilterHeaders ==
  { <<HEADER.Project_Name_padded, HEADER.REPORTING_PERIOD>>,
    <<HEADER.REPORTING_PERIOD, HEADER.Project_Name_padded>>,
    <<FILTER_COL.project_name, HEADER.Location_mixed>>,
    <<HEADER.region, FILTER_COL.reporting_period>>,
    <<FILTER_COL.project_name, FILTER_COL.project_name>>,
    <<HEADER.region, HEADER.region>>,
    <<HEADER.Location_mixed>>,
    <<HEADER.region>> }

FilterCells == { <<"A">>, <<" ", "A">>, <<>> }

FilterCriteria == { <<>>, <<"A">>, <<"a">>, <<"A", " ">> }

\* A row has as many cells as the text had on its line: at least one, and
\* possibly fewer than the header
FilterDataRows == SeqsOf(FilterCells, 1, 2)

NoFilterResult == [called |-> FALSE]

CallFilterMonitoring ==
  /\ fMon = NoFilterResult
  /\ fMon' = [called |-> TRUE, out |-> filterMonitoringRows(fRows, fFilters)]
  /\ UNCHANGED <<fRows, fFilters, fEval>>

CallFilterEvaluation ==
  /\ fEval = NoFilterResult
  /\ fEval' = [called |-> TRUE, out |-> filterEvaluationRows(fRows, fFilters)]
  /\ UNCHANGED <<fRows, fFilters, fMon>>

-----------------------------------------------------------------------------
(* Inputs of the intent-router calls *)

\* Phrases of the messages
W ==
  [ empty |-> <<>>,
    What_is |-> <<"W", "h", "a", "t", " ", "i", "s">>,
    define |-> <<"d", "e", "f", "i", "n", "e">>,
    meaning_of |-> <<"m", "e", "a", "n", "i", "n", "g", " ", "o", "f">>,
    draft |-> <<"d", "r", "a", "f", "t">>,
    Report |-> <<"R", "e", "p", "o", "r", "t">>,
    monitor |-> <<"m", "o", "n", "i", "t", "o", "r">>,
    trend |-> <<"t", "r", "e", "n", "d">>,
    after_action |-> <<"a", "f", "t", "e", "r", " ", "a", "c", "t", "i", "o", "n">>,
    help |-> <<"h", "e", "l", "p">> ]

IntentWords ==
  { W.empty, W.What_is, W.define, W.meaning_of, W.draft, W.Report, W.monitor,
    W.trend, W.after_action, W.help }

\* The words of ws, one space between two words
RECURSIVE JoinWords(_)
JoinWords(ws) ==
  IF ws = <<>> THEN <<>>
  ELSE IF Len(ws) = 1 THEN ws[1]
  ELSE ws[1] \o <<" ">> \o JoinWords(Tail(ws))

IntentMessages == { JoinWords(ws) : ws \in SeqsOf(IntentWords, 1, MaxWords) }

NoIntent == "(not called)"

CallDetectIntent ==
  /\ iIntent = NoIntent
  /\ iIntent' = detectMELIntent(iMessage)
  /\ UNCHANGED iMessage

-----------------------------------------------------------------------------
(* Inputs of the safeParseAiJson calls *)

ParsePrefixLexemes == { Fence, "json", " ", "x", "{" }
ParseSuffixLexemes == { Fence, " ", "x", "}" }

ParseBodies ==
  { <<>>,
    <<"{", "}">>,
    <<"{", "\"report_title\":", "\"T\"", "}">>,
    <<"{", "x", "}">>,
    <<"[", "{", "}", "]">>,
    <<"7">>,
    <<"null">> }

ParseTexts ==
  { pre \o body \o post :
      pre \in SeqsOf(ParsePrefixLexemes, 0, MaxAffix),
      body \in ParseBodies,
      post \in SeqsOf(ParseSuffixLexemes, 0, MaxAffix) }

NoParseResult == [called |-> FALSE]

CallSafeParse ==
  /\ pOut = NoParseResult
  /\ pOut' = [called |-> TRUE, val |-> safeParseAiJson(pText)]
  /\ UNCHANGED pText

-----------------------------------------------------------------------------
(* Inputs of the parseCSV calls: a text with one field in double quotes *)

\* The characters of the field
FieldChars == { "a", ",", "\n", "\"" }

\* The field as the text spells it: each quote of it doubled
RECURSIVE Doubled(_)
Doubled(content) ==
  IF content = <<>> THEN <<>>
  ELSE (IF Head(content) = "\"" THEN <<"\"", "\"">> ELSE <<Head(content)>>)
       \o Doubled(Tail(content))

Quoted(content) == <<"\"">> \o Doubled(content) \o <<"\"">>

\* What the text has before the field, with the rows and the cells of the
\* field's row that it makes
CsvBefore ==
  { [text |-> <<>>, rows |-> <<>>, cells |-> <<>>],
    [text |-> <<"x", ",">>, rows |-> <<>>, cells |-> << <<"x">> >>],
    [text |-> <<"x", "\r", "\n">>, rows |-> << << <<"x">> >> >>, cells |-> <<>>] }

\* What the text has after the field
CsvAfter ==
  { [text |-> <<>>, cells |-> <<>>, rows |-> <<>>],
    [text |-> <<",", "y">>, cells |-> << <<"y">> >>, rows |-> <<>>],
    [text |-> <<"\n", "y">>, cells |-> <<>>, rows |-> << << <<"y">> >> >>],
    [text |-> <<"\n">>, cells |-> <<>>, rows |-> <<>>] }

CsvParts == [before : CsvBefore, content : SeqsOf(FieldChars, 1, MaxField), after : CsvAfter]

CsvText(parts) == parts.before.text \o Quoted(parts.content) \o parts.after.text

NoCsvParts ==
  [ before |-> [text |-> <<>>, rows |-> <<>>, cells |-> <<>>], content |-> <<>>,
    after |-> [text |-> <<>>, cells |-> <<>>, rows |-> <<>>] ]

NoCsvResult == [called |-> FALSE]

CallParseCSV ==
  /\ cRows = NoCsvResult
  /\ cRows' = [called |-> TRUE, out |-> parseCSV(CsvText(cParts))]
  /\ UNCHANGED cParts

-----------------------------------------------------------------------------
(* Inputs of the parseCSV calls on whole lines *)

\* A line: its cells, which may be empty
CsvLines == SeqsOf({ <<>>, <<"a">> }, 1, MaxField)

\* What the text has after its last newline: nothing, a line that is not
\* ended, or a line whose last field opens with a quote that is never closed
CsvTails ==
  { [kind |-> "none", cells |-> <<>>, content |-> <<>>] }
  \cup { [kind |-> "plain", cells |-> cells, content |-> <<>>] :
           cells \in CsvLines \ { << <<>> >> } }
  \cup { [kind |-> "open", cells |-> cells, content |-> content] :
           cells \in { <<>>, << <<"a">> >>, << <<>> >> },
           content \in { <<>>, <<"a">>, <<",">>, <<"\n">>, <<"a", "\n">>, <<",", "a">> } }

CsvLineParts == [lines : SeqsOf(CsvLines, 0, MaxRows), tail : CsvTails]

\* The cells of a line, with a comma between two cells
RECURSIVE LineText(_)
LineText(cells) ==
  IF Len(cells) = 0 THEN <<>>
  ELSE IF Len(cells) = 1 THEN cells[1]
  ELSE cells[1] \o <<",">> \o LineText(Tail(cells))

\* Each line with its newline
RECURSIVE LinesText(_)
LinesText(lines) ==
  IF lines = <<>> THEN <<>> ELSE LineText(Head(lines)) \o <<"\n">> \o LinesText(Tail(lines))

TailText(tail) ==
  IF tail.kind = "open"
    THEN LineText(tail.cells) \o (IF tail.cells # <<>> THEN <<",">> ELSE <<>>)
         \o <<"\"">> \o tail.content
    ELSE LineText(tail.cells)

CsvLinesText(parts) == LinesText(parts.lines) \o TailText(parts.tail)

CallParseLines ==
  /\ cRows = NoCsvResult
  /\ cRows' = [called |-> TRUE, out |-> parseCSV(CsvLinesText(cParts))]
  /\ UNCHANGED cParts

-----------------------------------------------------------------------------
(* Inputs of the averageNumericColumn calls *)

AvgHeaders ==
  { << <<"P", "r", "o", "j", "e", "c", "t", " ", "N", "a", "m", "e">>,
       <<"S", "t", "a", "f", "f", " ", "A", "v", "a", "i", "l", "a", "b", "i", "l", "i", "t", "y">> >>,
    << <<" ", "S", "T", "A", "F", "F", " ", "A", "V", "A", "I", "L", "A", "B", "I", "L", "I", "T", "Y", " ">> >>,
    <<>> }

\* Cells of a rating column: numbers, no number, and a number followed by text
AvgCells ==
  { <<"4">>, <<"2", ".", "5">>, <<" ", "3", " ">>, <<"-", "1">>, <<>>,
    <<"N", "/", "A">>, <<"4", "/", "5">> }

\* The rows under a header: a row of two columns may lack its last cell
AvgRows(header) ==
  IF Len(header) = 2 THEN { <<<<"A">>, c>> : c \in AvgCells } \cup { << <<"A">> >> }
  ELSE { <<c>> : c \in AvgCells }

AvgColumns == { COL.staff, COL.budget }

NoAverage == [called |-> FALSE]

CallAverage ==
  /\ aOut = NoAverage
  /\ aOut' = [called |-> TRUE, out |-> averageNumericColumn(aHeader, aData, aCol)]
  /\ UNCHANGED <<aHeader, aData, aCol>>

-----------------------------------------------------------------------------
(* Inputs of the calls on a sheet: the summaries, the visuals and the percent
   of a rating *)

\* A filtered sheet: its header and its data rows
Sheet(header, data) == [header |-> header, data |-> data]

NoSheet == Sheet(<<>>, <<>>)

\* Ratings: negative, zero, fractions, above the maximum, and NaN
Ratings ==
  { Num(n, d) : n \in (-MaxNumerator)..MaxNumerator, d \in {1, 3, 4} } \cup { NaN }

MonitoringHeader == << FILTER_COL.project_name, COL.activity, COL.budget >>

\* Cells of a rating column: ratings at and around the limits of the buckets,
\* a number above the scale, no number, nothing, and a number followed by text
SheetCells == { <<"4">>, <<"2">>, <<"9">>, <<"x">>, <<>>, <<"4", "/", "5">> }

EvaluationCells == { <<"5">>, <<"2">>, <<"x">> }

\* The rows under MonitoringHeader; a row may lack its last cells
MonitoringRows ==
  { << <<"A">>, c1, c2 >> : c1 \in SheetCells, c2 \in EvaluationCells }
  \cup { << <<"A">>, c1 >> : c1 \in SheetCells }
  \cup { << <<"A">> >> }

MonitoringSheets ==
  { Sheet(MonitoringHeader, data) : data \in SeqsOf(MonitoringRows, 0, MaxSheetRows) }
  \cup { Sheet(<<>>, << << <<"A">> >> >>),
         Sheet(<< FILTER_COL.project_name >>, << << <<"A">> >> >>) }

EvaluationHeaders ==
  { << SUB.outcome \o <<" ">> \o SUB.rating, SUB.impact \o <<" ">> \o SUB.rating,
       SUB.overall \o <<" ">> \o SUB.performance \o <<" ">> \o SUB.rating >>,
    << SUB.outcome \o <<" ">> \o SUB.rating, SUB.impact \o <<" ">> \o SUB.rating >>,
    << SUB.phase, SUB.outcome, SUB.impact >> }

\* The rows under the headers; a row may lack its last cell
EvaluationRows ==
  { << c1, c2, c3 >> :
      c1 \in { <<"5">>, <<"x">> }, c2 \in { <<"2">>, <<"x">> },
      c3 \in EvaluationCells \cup { <<"4", "/", "5">> } }
  \cup { << <<"5">>, <<"x">> >> }

EvaluationSheets ==
  { Sheet(header, data) :
      header \in EvaluationHeaders,
      data \in SeqsOf(EvaluationRows, 0, MaxSheetRows) }
  \cup { Sheet(<<>>, << << <<"5">> >> >>) }

OneMonitoringSheet == Sheet(MonitoringHeader, << << <<"A">>, <<"4">>, <<"2">> >> >>)

OneEvaluationSheet ==
  Sheet(<< SUB.outcome \o <<" ">> \o SUB.rating, SUB.impact \o <<" ">> \o SUB.rating >>,
        << << <<"5">>, <<"2">> >>, << <<"x">>, <<"5">> >> >>)

\* Sheets with rows and no rating that is a number
UnratedMonitoringSheet == Sheet(MonitoringHeader, << << <<"A">>, <<"x">>, <<>> >> >>)

UnratedEvaluationSheets ==
  { NoSheet, Sheet(<< SUB.phase, SUB.outcome, SUB.impact >>, << << <<"x">>, <<"5">>, <<"2">> >> >>) }

NoSheetResult == [called |-> FALSE]

CallPercentFromRating ==
  /\ vCall = "none"
  /\ vCall' = "percentFromRating"
  /\ vOut' = percentFromRating(vRating)
  /\ UNCHANGED <<vMon, vEval, vRating>>

CallSummariseMonitoring ==
  /\ vCall = "none"
  /\ vCall' = "summariseMonitoring"
  /\ vOut' = summariseMonitoring(vMon.header, vMon.data)
  /\ UNCHANGED <<vMon, vEval, vRating>>

CallSummariseEvaluation ==
  /\ vCall = "none"
  /\ vCall' = "summariseEvaluation"
  /\ vOut' = summariseEvaluation(vEval.header, vEval.data)
  /\ UNCHANGED <<vMon, vEval, vRating>>

CallVisualsFromMonitoring ==
  /\ vCall = "none"
  /\ vCall' = "computeVisualsFromMonitoring"
  /\ vOut' = computeVisualsFromMonitoring(vMon.header, vMon.data)
  /\ UNCHANGED <<vMon, vEval, vRating>>

CallVisualsFromEvaluation ==
  /\ vCall = "none"
  /\ vCall' = "computeVisualsFromEvaluation"
  /\ vOut' = computeVisualsFromEvaluation(vEval.header, vEval.data)
  /\ UNCHANGED <<vMon, vEval, vRating>>

\* Lines 1417-1419: the visuals of the two sheets, merged
CallMergeVisuals ==
  /\ vCall = "none"
  /\ vCall' = "mergeVisuals"
  /\ vOut' = mergeVisuals(computeVisualsFromMonitoring(vMon.header, vMon.data),
                          computeVisualsFromEvaluation(vEval.header, vEval.data))
  /\ UNCHANGED <<vMon, vEval, vRating>>

-----------------------------------------------------------------------------
(* Inputs of POST /api/pas-ai-chat *)

\* message: "" stands for every falsy message, a missing one included
ChatMessages ==
  { W.empty, W.What_is, W.draft, W.Report, W.trend, W.after_action, W.help }

\* filters: a criterion that is missing is the empty string
NoFilters == [project |-> <<>>, period |-> <<>>, location |-> <<>>]

ChatFilters ==
  { NoFilters, [NoFilters EXCEPT !.project = <<"A">>], [NoFilters EXCEPT !.project = <<"B">>] }

\* intent_override: "" stands for a missing one
ChatOverrides == { <<>>, <<" ", "REPORT", " ">>, <<"custom">> }

ChatBodies == [message : ChatMessages, filters : ChatFilters, intent_override : ChatOverrides]

\* The CSV texts the two sheet URLs may answer with
MonitoringTwoRows ==
  << "P", "r", "o", "j", "e", "c", "t", " ", "N", "a", "m", "e", ",", "S",
     "t", "a", "f", "f", " ", "A", "v", "a", "i", "l", "a", "b", "i", "l",
     "i", "t", "y", "\n", "A", ",", "4", "\n", "B", ",", "2", "\n" >>

MonitoringOneRow ==
  << "P", "r", "o", "j", "e", "c", "t", " ", "N", "a", "m", "e", ",", "S",
     "t", "a", "f", "f", " ", "A", "v", "a", "i", "l", "a", "b", "i", "l",
     "i", "t", "y", "\n", "A", ",", "5", "\n" >>

EvaluationOneRow ==
  << "P", "r", "o", "j", "e", "c", "t", " ", "N", "a", "m", "e", ",", "O",
     "u", "t", "c", "o", "m", "e", " ", "R", "a", "t", "i", "n", "g", "\n",
     "A", ",", "3", "\n" >>

EvaluationTwoRows ==
  << "P", "r", "o", "j", "e", "c", "t", " ", "N", "a", "m", "e", ",", "O",
     "u", "t", "c", "o", "m", "e", " ", "R", "a", "t", "i", "n", "g", "\r",
     "\n", "A", ",", "1", "\r", "\n", "B", ",", "5" >>

\* A sheet with its header row and no data row
MonitoringHeaderOnly ==
  << "P", "r", "o", "j", "e", "c", "t", " ", "N", "a", "m", "e", ",", "S",
     "t", "a", "f", "f", " ", "A", "v", "a", "i", "l", "a", "b", "i", "l",
     "i", "t", "y", "\n" >>

MonitoringTexts == { <<>>, MonitoringHeaderOnly, MonitoringOneRow, MonitoringTwoRows }

EvaluationTexts == { EvaluationOneRow, EvaluationTwoRows }

\* The texts the model may answer with: objects of the response schema with
\* some members missing, blank or of another type, and texts that are no object
Members ==
  [ title |-> { <<>>, <<"\"report_title\":", "\"T\"">>, <<"\"report_title\":", "\" \"">> },
    markdown |-> { <<>>, <<"\"report_markdown\":", "\"body\"">>,
                   <<"\"report_markdown\":", "\" \"">> },
    findings |-> { <<>>,
                   <<"\"key_findings\":", "[", "]">>,
                   <<"\"key_findings\":", "[", "\"f1\"", ",", "\"f2\"", "]">>,
                   <<"\"key_findings\":", "\"f1\"">> },
    recs |-> { <<>>,
               <<"\"recommendations\":", "[", "]">>,
               <<"\"recommendations\":", "[", "\"f2\"", "]">> },
    visuals |-> { <<>>,
                  <<"\"visuals\":", "{", "\"kpi_scores\":", "[", "]", ",",
                    "\"combined_score_percent\":", "7", "}">> } ]

\* The members that are present, a comma between two of them
RECURSIVE JoinMembers(_)
JoinMembers(ms) ==
  IF ms = <<>> THEN <<>>
  ELSE LET rest == JoinMembers(Tail(ms)) IN
       IF Head(ms) = <<>> THEN rest
       ELSE IF rest = <<>> THEN Head(ms)
       ELSE Head(ms) \o <<",">> \o rest

ObjectText(ms) == <<"{">> \o JoinMembers(ms) \o <<"}">>

ObjectTexts ==
  { ObjectText(<<t, m>>) : t \in Members.title, m \in Members.markdown }
  \cup { ObjectText(<<k, r, v>>) :
           k \in Members.findings, r \in Members.recs, v \in Members.visuals }

OtherTexts ==
  { <<>>, <<" ">>, <<"x">>, <<"7">>, <<"0">>, <<"null">>, <<"\"T\"">>, <<"[", "]">>,
    <<"{", "}", "x">>, <<"x", "{", "}">>,
    <<Fence, "json", "\n", "{", "\"report_markdown\":", "\"body\"", "}", "\n", Fence>> }

ModelTexts == ObjectTexts \cup OtherTexts

Member(key, val) == [key |-> key, val |-> val]

\* One item of data.output whose content holds the given entries
OutputItem(entries) == JObj(<<Member("content", JArr(entries))>>)

\* The bodies of a 2xx model response that are JSON
ModelData ==
  { JObj(<<Member("output_text", JStr(t))>>) : t \in ModelTexts }
  \cup
  { JNull,
    JObj(<<>>),
    JObj(<<Member("output_text", JStr(<<" ">>)),
           Member("output", JArr(<<OutputItem(<<JObj(<<Member("text", JStr(<<"{", "}">>))>>)>>)>>))>>),
    JObj(<<Member("output", JArr(<<OutputItem(<<JObj(<<Member("text", JStr(<<"x">>))>>),
                                                JObj(<<Member("content", JStr(<<"y">>))>>)>>),
                                  JNull>>))>>),
    JObj(<<Member("output", JStr(<<"x">>))>>) }

\* The bodies of a model response that is no 2xx
ErrorBodies ==
  { JObj(<<Member("error", JObj(<<Member("message", JStr(<<"Incorrect API key provided">>))>>))>>),
    JObj(<<>>) }

ErrorStatuses == { 401, 500 }

\* An answer of the model service: failed when fetch rejects, json when the
\* body is JSON text
ModelReplies ==
  { [failed |-> TRUE, status |-> 0, json |-> FALSE, body |-> JNull] }
  \cup { [failed |-> FALSE, status |-> s, json |-> TRUE, body |-> b] :
           s \in ErrorStatuses, b \in ErrorBodies }
  \cup { [failed |-> FALSE, status |-> s, json |-> FALSE, body |-> JNull] :
           s \in ErrorStatuses \cup {200} }
  \cup { [failed |-> FALSE, status |-> 200, json |-> TRUE, body |-> d] : d \in ModelData }

-----------------------------------------------------------------------------
(* The visuals of the payload in the two chat-completions variants of
   POST /api/pas-ai-chat (src/unnamed/part_000 and the first handler of
   src/unnamed/part_001), with the inputs of their calls *)

\* part_000, lines 851-860
VisualsPreferringAiArray(aiJson, local) ==
  LET visuals == Get(aiJson, "visuals") IN
  [ kpi_scores |->
      IF Get(visuals, "kpi_scores").ty = "array"
        THEN Get(visuals, "kpi_scores") ELSE local.monVisuals.kpi_scores,
    distribution |->
      IF Truthy(Get(visuals, "distribution"))
        THEN Get(visuals, "distribution") ELSE local.monVisuals.distribution,
    combined_score_percent |->
      IF Get(visuals, "combined_score_percent").ty = "number"
        THEN Get(visuals, "combined_score_percent").n
        ELSE local.combinedVisuals.combined_score_percent,
    combined_distribution |->
      IF Truthy(Get(visuals, "combined_distribution"))
        THEN Get(visuals, "combined_distribution")
        ELSE local.combinedVisuals.combined_distribution ]

VisualsPreferringAiObjects(aiJson, local) ==
  LET visuals == Get(aiJson, "visuals") IN
  [ kpi_scores |->
      IF Truthy(Get(visuals, "kpi_scores"))
        THEN Get(visuals, "kpi_scores") ELSE local.monVisuals.kpi_scores,
    distribution |->
      IF Get(visuals, "distribution").ty = "object"
        THEN Get(visuals, "distribution") ELSE local.monVisuals.distribution,
    combined_score_percent |->
      IF Get(visuals, "combined_score_percent").ty = "number"
        THEN Get(visuals, "combined_score_percent").n
        ELSE local.combinedVisuals.combined_score_percent,
    combined_distribution |->
      IF Truthy(Get(visuals, "combined_distribution"))
        THEN Get(visuals, "combined_distribution")
        ELSE local.combinedVisuals.combined_distribution ]

\* part_001, lines 637-646
VisualsPreferringAi(aiJson, local) ==
  LET visuals == Get(aiJson, "visuals") IN
  [ kpi_scores |->
      IF Truthy(Get(visuals, "kpi_scores"))
        THEN Get(visuals, "kpi_scores") ELSE local.monVisuals.kpi_scores,
    distribution |->
      IF Truthy(Get(visuals, "distribution"))
        THEN Get(visuals, "distribution") ELSE local.monVisuals.distribution,
    combined_score_percent |->
      IF Get(visuals, "combined_score_percent").ty = "number"
        THEN Get(visuals, "combined_score_percent").n
        ELSE local.combinedVisuals.combined_score_percent,
    combined_distribution |->
      IF Truthy(Get(visuals, "combined_distribution"))
        THEN Get(visuals, "combined_distribution")
        ELSE local.combinedVisuals.combined_distribution ]

\* The members of visuals in the model's text: missing, of the type of the
\* schema, and of other types
VisualsMembers ==
  [ kpi_scores |-> { <<>> } \cup
      { <<"\"kpi_scores\":">> \o v :
          v \in { <<"[", "]">>, <<"[", "{", "}", "]">>, <<"{", "}">>, <<"\"T\"">>,
                  <<"\"\"">>, <<"0">>, <<"null">> } },
    distribution |-> { <<>> } \cup
      { <<"\"distribution\":">> \o v :
          v \in { <<"{", "}">>, <<"\"T\"">>, <<"0">>, <<"null">> } },
    combined_score_percent |-> { <<>> } \cup
      { <<"\"combined_score_percent\":">> \o v :
          v \in { <<"7">>, <<"0">>, <<"\"T\"">>, <<"null">> } },
    combined_distribution |-> { <<>> } \cup
      { <<"\"combined_distribution\":">> \o v : v \in { <<"{", "}">>, <<"null">> } } ]

\* The texts of the model: an object with visuals of at most MaxMembers
\* members, with visuals that is no object, or without visuals
VisualsTexts ==
  { ObjectText(<< <<"\"visuals\":">> \o ObjectText(m) >>) :
      m \in { m \in VisualsMembers.kpi_scores \X VisualsMembers.distribution
                      \X VisualsMembers.combined_score_percent
                      \X VisualsMembers.combined_distribution :
                Cardinality({ i \in 1..4 : m[i] # <<>> }) <= MaxMembers } }
  \cup { <<"{", "}">>, <<"{", "\"visuals\":", "null", "}">>,
         <<"{", "\"visuals\":", "\"T\"", "}">>, <<"[", "]">> }

\* What the handler computed from two sheets: the visuals of a monitoring
\* row rated 4 and 2 and of evaluation rows rated 5, 2 and 5
VariantLocal ==
  [ monVisuals |->
      [ kpi_scores |-> << [label |-> "Activity", percent |-> 80],
                          [label |-> "Budget", percent |-> 40],
                          [label |-> "Staff", percent |-> 0],
                          [label |-> "Community", percent |-> 0],
                          [label |-> "Coordination", percent |-> 0],
                          [label |-> "Overall", percent |-> 60] >>,
        distribution |-> [good |-> 0, watch |-> 1, poor |-> 0] ],
    combinedVisuals |->
      [ combined_score_percent |-> 75,
        combined_distribution |-> [good |-> 2, watch |-> 1, poor |-> 0] ] ]

\* part_000, lines 821-860: the visuals of the answer to the model's text
CallVariantArray ==
  /\ pOut = NoParseResult
  /\ pOut' = TheOne({ [ called |-> TRUE, variant |-> "part_000",
                         visuals |-> IF ~Truthy(aiJson) \/ ~TypeofObject(aiJson)
                                       THEN LocalVisuals(local)
                                       ELSE VisualsPreferringAiArray(aiJson, local) ] :
                       aiJson \in {safeParseAiJson(pText)}, local \in {VariantLocal} })
  /\ UNCHANGED pText

\* part_001, lines 610-646: the visuals of the answer to the model's text
CallVariant ==
  /\ pOut = NoParseResult
  /\ pOut' = TheOne({ [ called |-> TRUE, variant |-> "part_001",
                         visuals |-> IF ~Truthy(aiJson) \/ ~TypeofObject(aiJson)
                                       THEN LocalVisuals(local)
                                       ELSE VisualsPreferringAi(aiJson, local) ] :
                       aiJson \in {safeParseAiJson(pText)}, local \in {VariantLocal} })
  /\ UNCHANGED pText

-----------------------------------------------------------------------------
(* POST /api/pas-ai-chat.  A request advances at the handler's awaits: it is
   new, then fetching both sheets, then awaiting the model, then done. *)

Ok(status) == status \in 200..299

\* What a sheet URL answers: fetch rejects (the network fails), or there is a
\* response with a status and a body
NoSheetAnswer == [rejected |-> FALSE, status |-> 0, text |-> <<>>]

SheetAnswers(texts) ==
  { [rejected |-> TRUE, status |-> 0, text |-> <<>>],
    [rejected |-> FALSE, status |-> 404, text |-> <<"Not Found">>] }
  \cup { [rejected |-> FALSE, status |-> 200, text |-> t] : t \in texts }

\* fetchCsvText: the text of the body, rejected when fetch rejects or the
\* status is no 2xx
fetchCsvTextAnyStatus(answer) ==
  IF answer.rejected THEN [st |-> "failed", text |-> <<>>]
  ELSE [st |-> "ok", text |-> answer.text]

fetchCsvText(answer) ==
  IF answer.rejected \/ ~Ok(answer.status) THEN [st |-> "failed", text |-> <<>>]
  ELSE [st |-> "ok", text |-> answer.text]

\* The requests of the specification of one request
Requests == { 1 }

NewRequest ==
  [ pc |-> "new",
    body |-> [message |-> <<>>, filters |-> NoFilters, intent_override |-> <<>>],
    mon |-> [st |-> "idle", text |-> <<>>, calls |-> 0, answer |-> NoSheetAnswer],
    eval |-> [st |-> "idle", text |-> <<>>, calls |-> 0, answer |-> NoSheetAnswer],
    local |-> [intent |-> <<>>],
    modelCalls |-> 0,
    modelReply |-> [failed |-> FALSE, status |-> 0, json |-> FALSE, body |-> JUndefined],
    sent |-> <<>> ]

\* res.status(..).json(payload), which ends the handler
Answered(r, response) == [r EXCEPT !.pc = "done", !.sent = Append(@, response)]

StartFetch(f) == [f EXCEPT !.st = "pending", !.calls = @ + 1]

\* Receive with the message tested after the sheets are requested
ReceiveFetchFirst(id) ==
  /\ req[id].pc = "new"
  /\ \E body \in ChatBodies :
       req' = [req EXCEPT ![id] =
                 [@ EXCEPT !.body = body, !.pc = "fetching", !.mon = StartFetch(@),
                           !.eval = StartFetch(@)]]
  /\ UNCHANGED apiKey

\* Receive with the evaluation sheet requested after the monitoring sheet
ReceiveSequential(id) ==
  /\ req[id].pc = "new"
  /\ \E body \in ChatBodies :
       LET r == [req[id] EXCEPT !.body = body] IN
       req' = [req EXCEPT ![id] =
                 IF body.message = <<>> THEN Answered(r, MissingMessage)
                 ELSE IF ~apiKey THEN Answered(r, MissingKey)
                 ELSE [r EXCEPT !.pc = "fetching", !.mon = StartFetch(@)]]
  /\ UNCHANGED apiKey

\* Lines 1393-1406: the body is read; without a message or an API key the
\* request is answered at once, otherwise both sheets are requested
Receive(id) ==
  /\ req[id].pc = "new"
  /\ \E body \in ChatBodies :
       LET r == [req[id] EXCEPT !.body = body] IN
       req' = [req EXCEPT ![id] =
                 IF body.message = <<>> THEN Answered(r, MissingMessage)
                 ELSE IF ~apiKey THEN Answered(r, MissingKey)
                 ELSE [r EXCEPT !.pc = "fetching", !.mon = StartFetch(@),
                                !.eval = StartFetch(@)]]
  /\ UNCHANGED apiKey

\* fetchCsvText settles for one sheet.  The first rejection rejects
\* Promise.all and the catch block answers; the other fetch settles unobserved.
FetchSettlesAnsweringEach(id, sheet, texts) ==
  /\ req[id][sheet].st = "pending"
  /\ \E answer \in SheetAnswers(texts) :
       LET out == fetchCsvText(answer)
           r == [req[id] EXCEPT ![sheet] =
                   [@ EXCEPT !.st = out.st, !.text = out.text, !.answer = answer]]
       IN req' = [req EXCEPT ![id] =
                    IF out.st = "failed" THEN Answered(r, ServerError) ELSE r]
  /\ UNCHANGED apiKey

FetchSettles(id, sheet, texts) ==
  /\ req[id][sheet].st = "pending"
  /\ \E answer \in SheetAnswers(texts) :
       LET out == fetchCsvText(answer)
           r == [req[id] EXCEPT ![sheet] =
                   [@ EXCEPT !.st = out.st, !.text = out.text, !.answer = answer]]
       IN req' = [req EXCEPT ![id] =
                    IF out.st = "failed" /\ r.pc = "fetching"
                      THEN Answered(r, ServerError) ELSE r]
  /\ UNCHANGED apiKey

FetchMonitoringSettles(id) == FetchSettles(id, "mon", MonitoringTexts)

FetchEvaluationSettles(id) == FetchSettles(id, "eval", EvaluationTexts)

\* CallModel with the monitoring text kept in one place for all requests
CallModelSharedSheet(id) ==
  /\ req[id].pc = "fetching"
  /\ req[id].mon.st = "ok"
  /\ req[id].eval.st = "ok"
  /\ LET first == CHOOSE j \in DOMAIN req :
                    /\ req[j].mon.st = "ok"
                    /\ \A k \in DOMAIN req : req[k].mon.st = "ok" => j <= k
     IN req' = [req EXCEPT ![id] =
                  [@ EXCEPT !.pc = "awaitModel",
                            !.local = Prepared(req[id].body, req[first].mon.text,
                                               req[id].eval.text),
                            !.modelCalls = @ + 1]]
  /\ UNCHANGED apiKey

\* Lines 1408-1572, after Promise.all fulfils: parse, filter, summarise,
\* compute the visuals, build the prompt and call the model
CallModel(id) ==
  /\ req[id].pc = "fetching"
  /\ req[id].mon.st = "ok"
  /\ req[id].eval.st = "ok"
  /\ req' = [req EXCEPT ![id] =
               [@ EXCEPT !.pc = "awaitModel",
                         !.local = Prepared(req[id].body, req[id].mon.text, req[id].eval.text),
                         !.modelCalls = @ + 1]]
  /\ UNCHANGED apiKey

\* Lines 1574-1664: what the handler answers to the model's reply.  A body
\* that is no JSON makes openaiResponse.json() reject; on the error path the
\* catch clause then reads the consumed body with text(), which rejects too.
ModelAnswer(reply, local, filters) ==
  IF reply.failed THEN ServerError
  ELSE IF ~Ok(reply.status) THEN
    IF reply.json THEN ModelError(reply.status, reply.body) ELSE ServerError
  ELSE IF ~reply.json THEN ServerError
  ELSE Reconciled(reply.body, local, filters)

\* ModelSettles with one more call after a call that failed
ModelSettlesRetrying(id) ==
  /\ req[id].pc = "awaitModel"
  /\ \E reply \in ModelReplies :
       req' = [req EXCEPT ![id] =
                 IF reply.failed /\ req[id].modelCalls < 2
                   THEN [@ EXCEPT !.modelCalls = @ + 1]
                   ELSE Answered([@ EXCEPT !.modelReply = reply],
                                 ModelAnswer(reply, req[id].local, req[id].body.filters))]
  /\ UNCHANGED apiKey

ModelSettles(id) ==
  /\ req[id].pc = "awaitModel"
  /\ \E reply \in ModelReplies :
       req' = [req EXCEPT ![id] =
                 Answered([@ EXCEPT !.modelReply = reply],
                          ModelAnswer(reply, req[id].local, req[id].body.filters))]
  /\ UNCHANGED apiKey

-----------------------------------------------------------------------------
(* safeParseAiJson: claims *)

\* The text from the first "{" to the last "}" of t; <<>> when there is none
FirstToLastBrace(t) ==
  IF \E i, j \in 1..Len(t) : i < j /\ t[i] = "{" /\ t[j] = "}"
    THEN SubSeq(t, IndexOf(t, "{"),
                CHOOSE j \in 1..Len(t) : t[j] = "}" /\ \A k \in (j + 1)..Len(t) : t[k] # "}")
    ELSE <<>>

\* C6: when direct parsing of the fence-stripped text fails, the text from its
\* first "{" to its last "}" is parsed and its value returned whenever that
\* text is valid JSON, whatever precedes the first "{" or follows the last "}".
C6_FirstToLastBraceParsed ==
  pOut.called =>
    LET t == FenceStripped(pText)
        span == FirstToLastBrace(t)
    IN (~JSONParse(t).ok /\ span # <<>> /\ JSONParse(span).ok) =>
         pOut.val = JSONParse(span).val

-----------------------------------------------------------------------------
(* Row filter: claims *)

HasColumn(rows, name) ==
  Len(rows) >= 1 /\ \E i \in 1..Len(rows[1]) : safeLower(rows[1][i]) = name

\* C1: a criterion whose expected column is absent from the header excludes
\* no row: the data returned equals the data returned with that criterion
\* empty (filterMonitoringRows: project, period, location;
\* filterEvaluationRows: project, period).
C1_AbsentColumnMatchesAll ==
  /\ fMon.called =>
       /\ (~HasColumn(fRows, FILTER_COL.project_name)) =>
            fMon.out.data =
              filterMonitoringRows(fRows, [fFilters EXCEPT !.project = <<>>]).data
       /\ (~HasColumn(fRows, FILTER_COL.reporting_period)) =>
            fMon.out.data =
              filterMonitoringRows(fRows, [fFilters EXCEPT !.period = <<>>]).data
       /\ (~HasColumn(fRows, FILTER_COL.location)) =>
            fMon.out.data =
              filterMonitoringRows(fRows, [fFilters EXCEPT !.location = <<>>]).data
  /\ fEval.called =>
       /\ (~HasColumn(fRows, FILTER_COL.project_name)) =>
            fEval.out.data =
              filterEvaluationRows(fRows, [fFilters EXCEPT !.project = <<>>]).data
       /\ (~HasColumn(fRows, FILTER_COL.reporting_period)) =>
            fEval.out.data =
              filterEvaluationRows(fRows, [fFilters EXCEPT !.period = <<>>]).data

-----------------------------------------------------------------------------
(* Intent router: claims *)

Intents == { "DEFINITION", "TOOLS", "REPORT", "DASHBOARD_ANALYSIS", "LEARNING", "HOW_TO" }

RuleOrder == << "DEFINITION", "TOOLS", "REPORT", "DASHBOARD_ANALYSIS", "LEARNING" >>

\* The keyword condition of a rule, on the lower-cased trimmed text m
RuleHolds(intent, m) ==
  CASE intent = "DEFINITION" ->
         \/ StartsWith(m, KW.what_is) \/ StartsWith(m, KW.define)
         \/ Includes(m, KW.meaning_of)
    [] intent = "TOOLS" -> \E k \in ToolsKeywords : Includes(m, k)
    [] intent = "REPORT" -> \E k \in ReportKeywords : Includes(m, k)
    [] intent = "DASHBOARD_ANALYSIS" -> \E k \in DashboardKeywords : Includes(m, k)
    [] intent = "LEARNING" -> \E k \in LearningKeywords : Includes(m, k)

MatchingRules(message) ==
  { i \in 1..Len(RuleOrder) : RuleHolds(RuleOrder[i], Trim(ToLowerCase(message))) }

\* C8: detectMELIntent returns exactly one of the six intents: the intent of
\* the first rule, in the order DEFINITION, TOOLS, REPORT, DASHBOARD_ANALYSIS,
\* LEARNING, whose keyword condition holds on the lower-cased trimmed text,
\* and HOW_TO exactly when no rule's condition holds.
C8_FirstMatchingRuleWins ==
  iIntent # NoIntent =>
    LET matching == MatchingRules(iMessage) IN
    /\ iIntent \in Intents
    /\ (iIntent = "HOW_TO") <=> (matching = {})
    /\ matching # {} =>
         iIntent = RuleOrder[CHOOSE i \in matching : \A j \in matching : i <= j]

\* A message on which the TOOLS rule and a later rule both hold: TOOLS wins
C8_Witness ==
  /\ iIntent = "TOOLS"
  /\ \E i \in MatchingRules(iMessage) : RuleOrder[i] = "REPORT"

-----------------------------------------------------------------------------
(* POST /api/pas-ai-chat: claims *)

\* The request has called the model
CalledModel(r) == r.modelCalls = 1

\* The model answered 2xx with a JSON body, and the request is answered
GotData(r) ==
  /\ r.pc = "done" /\ CalledModel(r)
  /\ ~r.modelReply.failed /\ Ok(r.modelReply.status) /\ r.modelReply.json

RawTextOf(r) == extractResponseText(r.modelReply.body)

AiJsonOf(r) == safeParseAiJson(RawTextOf(r))

\* The model's text parsed to an object (typeof "object", not null)
ParsedToObject(r) == GotData(r) /\ Truthy(AiJsonOf(r)) /\ TypeofObject(AiJsonOf(r))

Unparseable(r) == GotData(r) /\ ~(Truthy(AiJsonOf(r)) /\ TypeofObject(AiJsonOf(r)))

\* The response the request was answered with
AnswerOf(r) == r.sent[Len(r.sent)]

\* The four visuals fields equal the values the handler computed from the sheets
VisualsAreLocal(visuals, local) ==
  /\ DOMAIN visuals =
       {"kpi_scores", "distribution", "combined_score_percent", "combined_distribution"}
  /\ visuals.kpi_scores = local.monVisuals.kpi_scores
  /\ visuals.distribution = local.monVisuals.distribution
  /\ visuals.combined_score_percent = local.combinedVisuals.combined_score_percent
  /\ visuals.combined_distribution = local.combinedVisuals.combined_distribution

\* C2: whenever the model output parses to an object, the four visuals fields
\* of the payload equal the locally computed values, whatever the model's own
\* visuals field holds.
C2_VisualsAreLocal ==
  \A id \in DOMAIN req :
    ParsedToObject(req[id]) =>
      VisualsAreLocal(AnswerOf(req[id]).body.visuals, req[id].local)

\* The model sent visuals of its own that differ from the local ones
C2_Witness ==
  \E id \in DOMAIN req :
    /\ ParsedToObject(req[id])
    /\ Truthy(Get(AiJsonOf(req[id]), "visuals"))
    /\ Get(Get(AiJsonOf(req[id]), "visuals"), "combined_score_percent") = JNum(7)
    /\ req[id].local.combinedVisuals.combined_score_percent > 7
    /\ AnswerOf(req[id]).body.visuals.combined_score_percent =
         req[id].local.combinedVisuals.combined_score_percent

\* C3: when the model call succeeds and its text does not parse to an object
\* (malformed text, empty text, a parsed value that is no object), the answer
\* is no error: status 200, success true, a reply that is not blank (the raw
\* text, or the fixed message when the raw text is empty), the local visuals
\* and a note.
C3_UnparseableIsRecovered ==
  \A id \in DOMAIN req :
    Unparseable(req[id]) =>
      LET answer == AnswerOf(req[id])
          rawText == RawTextOf(req[id])
      IN /\ answer.status = 200
         /\ answer.body.success = TRUE
         /\ "error" \notin DOMAIN answer.body
         /\ answer.body.reply = (IF rawText # <<>> THEN rawText ELSE NoUsableJson)
         /\ Trim(answer.body.reply) # <<>>
         /\ VisualsAreLocal(answer.body.visuals, req[id].local)
         /\ "note" \in DOMAIN answer.body
         /\ answer.body.note = NotValidJsonNote

\* The raw text is empty and the fixed message is the reply
C3_Witness ==
  \E id \in DOMAIN req :
    /\ Unparseable(req[id])
    /\ RawTextOf(req[id]) = <<>>
    /\ AnswerOf(req[id]).body.reply = NoUsableJson
    /\ req[id].local.monVisuals.kpi_scores # <<>>

\* field is the fixed list when parsed is no array or an empty one, and
\* parsed itself otherwise
ListOrFixed(field, parsed, fixed) ==
  /\ field.ty = "array"
  /\ Len(field.items) >= 1
  /\ Len(fixed.items) = 3
  /\ field = (IF parsed.ty = "array" /\ parsed.items # <<>> THEN parsed ELSE fixed)

\* C4: for every model output that parses to an object, key_findings and
\* recommendations of the payload are arrays of length at least 1: the fixed
\* three-item list when the parsed field is missing, no array or an empty
\* array, and the model's array unchanged otherwise.
C4_ListsNeverEmpty ==
  \A id \in DOMAIN req :
    ParsedToObject(req[id]) =>
      LET payload == AnswerOf(req[id]).body
          aiJson == AiJsonOf(req[id])
      IN /\ ListOrFixed(payload.key_findings, Get(aiJson, "key_findings"), DefaultFindings)
         /\ ListOrFixed(payload.recommendations, Get(aiJson, "recommendations"), DefaultRecs)

\* The model sent an empty key_findings array and an array of recommendations
C4_Witness ==
  \E id \in DOMAIN req :
    /\ ParsedToObject(req[id])
    /\ Get(AiJsonOf(req[id]), "key_findings") = JArr(<<>>)
    /\ AnswerOf(req[id]).body.key_findings = DefaultFindings
    /\ AnswerOf(req[id]).body.recommendations = JArr(<<JStr(<<"f2">>)>>)

HasList(payload, key) ==
  /\ key \in DOMAIN payload
  /\ payload[key].ty = "array"
  /\ Len(payload[key].items) >= 1

\* C5: every payload with success true that the handler sends carries
\* key_findings and recommendations arrays of at least one element each, on
\* the parsed path and on the unparseable-output path alike.
C5_EverySuccessHasLists ==
  \A id \in DOMAIN req :
    \A k \in 1..Len(req[id].sent) :
      LET payload == req[id].sent[k].body IN
      payload.success => HasList(payload, "key_findings") /\ HasList(payload, "recommendations")

Missing(v) == v.ty = "undefined"

Blank(v) == v.ty = "string" /\ Trim(v.s) = <<>>

\* The narrative made of a title, findings and recommendations
Narrative(title, findings, recs) ==
  <<"#", " ">> \o title \o <<"\n", "\n", "## Key Findings", "\n", "-", " ">>
  \o JoinItems(findings.items, <<"\n", "-", " ">>)
  \o <<"\n", "\n", "## Recommendations", "\n", "-", " ">>
  \o JoinItems(recs.items, <<"\n", "-", " ">>) \o <<"\n">>

\* C7: on the parsed path the reply is never blank; when report_markdown is
\* missing, empty or white space, the reply is the narrative made of the
\* payload's title, findings and recommendations, and the title is
\* 'ProMEL MEL Output' when report_title is missing or blank.
C7_ReplyNeverBlank ==
  \A id \in DOMAIN req :
    ParsedToObject(req[id]) =>
      LET payload == AnswerOf(req[id]).body
          aiJson == AiJsonOf(req[id])
          report_markdown == Get(aiJson, "report_markdown")
          report_title == Get(aiJson, "report_title")
      IN /\ Trim(payload.reply) # <<>>
         /\ (Missing(report_title) \/ Blank(report_title)) =>
              payload.report_title = DefaultTitle
         /\ (Missing(report_markdown) \/ Blank(report_markdown)) =>
              payload.reply = Narrative(payload.report_title, payload.key_findings,
                                        payload.recommendations)

\* report_markdown is white space, the title is the model's
C7_Witness ==
  \E id \in DOMAIN req :
    /\ ParsedToObject(req[id])
    /\ Get(AiJsonOf(req[id]), "report_markdown") = JStr(<<" ">>)
    /\ AnswerOf(req[id]).body.report_title = <<"T">>
    /\ AnswerOf(req[id]).body.reply =
         Narrative(<<"T">>, DefaultFindings, DefaultRecs)

LiveIntents == { <<"REPORT">>, <<"DASHBOARD_ANALYSIS">> }

\* The prompt carries the two summaries the handler computed
CarriesSummaries(r) ==
  LET block == r.local.userPrompt.liveDataBlock IN
  /\ {"monitoringSummary", "evaluationSummary"} \subseteq DOMAIN block
  /\ block.monitoringSummary = r.local.monitoringSummary
  /\ block.evaluationSummary = r.local.evaluationSummary

\* C9: the monitoring and evaluation summaries are in the prompt sent to the
\* model if and only if the request's intent is REPORT or DASHBOARD_ANALYSIS;
\* for every other intent the prompt has the fixed 'not provided' note in
\* their place.
C9_SummariesOnlyForLiveIntents ==
  \A id \in DOMAIN req :
    CalledModel(req[id]) =>
      LET r == req[id]
          intent == RequestIntent(r.body.message, r.body.intent_override)
      IN /\ CarriesSummaries(r) <=> intent \in LiveIntents
         /\ intent \notin LiveIntents =>
              r.local.userPrompt.liveDataBlock = [note |-> LiveNotProvided]

\* A dashboard question whose prompt carries the summary of two records
C9_Witness ==
  \E id \in DOMAIN req :
    /\ CalledModel(req[id])
    /\ req[id].body.intent_override = <<>>
    /\ detectMELIntent(req[id].body.message) = "DASHBOARD_ANALYSIS"
    /\ CarriesSummaries(req[id])
    /\ "records" \in DOMAIN req[id].local.monitoringSummary
    /\ req[id].local.monitoringSummary.records = 2

\* C10: for a request whose intent is neither REPORT nor DASHBOARD_ANALYSIS,
\* the system and user prompts sent to the model do not depend on the fetched
\* sheet contents: with the same message, filters and intent and any other
\* sheet texts, the same prompts are sent.
C10_PromptIndependentOfSheets ==
  \A id \in DOMAIN req :
    (CalledModel(req[id]) /\ req[id].local.intent \notin LiveIntents) =>
      \A monCsvText \in MonitoringTexts, evalCsvText \in EvaluationTexts :
        LET other == Prepared(req[id].body, monCsvText, evalCsvText) IN
        /\ other.systemPrompt = req[id].local.systemPrompt
        /\ other.userPrompt = req[id].local.userPrompt

-----------------------------------------------------------------------------
(* POST /api/pas-ai-chat: error paths and upstream calls *)

\* C11: a request with a missing or empty message is answered with status 400
\* and success false, and no sheet fetch and no model call is ever issued for
\* that request.
C11_MissingMessageRejected ==
  \A id \in DOMAIN req :
    (req[id].pc # "new" /\ req[id].body.message = <<>>) =>
      /\ req[id].pc = "done"
      /\ Len(req[id].sent) = 1
      /\ AnswerOf(req[id]).status = 400
      /\ AnswerOf(req[id]).body.success = FALSE
      /\ req[id].mon.calls = 0
      /\ req[id].eval.calls = 0
      /\ req[id].modelCalls = 0

\* A request with filters and an API key, and no message, was answered
C11_Witness ==
  \E id \in DOMAIN req :
    /\ apiKey
    /\ req[id].pc = "done"
    /\ req[id].body.message = <<>>
    /\ req[id].body.filters.project = <<"A">>
    /\ req[id].sent = <<MissingMessage>>

\* The sheet fetch has settled and did not deliver: the network failed or the
\* status was no 2xx
FetchFailed(f) ==
  /\ f.st \in {"ok", "failed"}
  /\ f.answer.rejected \/ f.answer.status \notin 200..299

\* C12: if either sheet fetch fails (network failure or a status that is no
\* 2xx), the request ends with an error response with success false that has
\* no summary, visuals or record counts, and the model is never called for
\* that request, also when the other fetch succeeded.
C12_FetchFailureFailsRequest ==
  \A id \in DOMAIN req :
    (FetchFailed(req[id].mon) \/ FetchFailed(req[id].eval)) =>
      /\ req[id].pc = "done"
      /\ Len(req[id].sent) = 1
      /\ AnswerOf(req[id]).status >= 400
      /\ AnswerOf(req[id]).body.success = FALSE
      /\ DOMAIN AnswerOf(req[id]).body = {"success", "error"}
      /\ req[id].modelCalls = 0
      /\ DOMAIN req[id].local = {"intent"}

\* The monitoring sheet arrived, the evaluation sheet answered 404
C12_Witness ==
  \E id \in DOMAIN req :
    /\ req[id].mon.st = "ok"
    /\ req[id].mon.text = MonitoringTwoRows
    /\ req[id].eval.st = "failed"
    /\ req[id].eval.answer.status = 404
    /\ req[id].sent = <<ServerError>>

\* C13: when the model service answers with a status S that is no success,
\* the response to the client has HTTP status S, success false and status S,
\* with the upstream error message when the error body has one, whether the
\* error body is JSON or not.
C13_ModelStatusPropagated ==
  \A id \in DOMAIN req :
    LET r == req[id]
        message == Get(Get(r.modelReply.body, "error"), "message")
    IN (r.pc = "done" /\ CalledModel(r) /\ ~r.modelReply.failed /\ ~Ok(r.modelReply.status)) =>
         /\ AnswerOf(r).status = r.modelReply.status
         /\ AnswerOf(r).body.success = FALSE
         /\ "status" \in DOMAIN AnswerOf(r).body
         /\ AnswerOf(r).body.status = r.modelReply.status
         /\ (r.modelReply.json /\ Truthy(message)) => AnswerOf(r).body.error = message

\* C14: no upstream call is retried: along every execution of a request each
\* of the two sheet URLs is fetched at most once and the model service is
\* called at most once, whatever fails.
C14_NoRetry ==
  \A id \in DOMAIN req :
    /\ req[id].mon.calls <= 1
    /\ req[id].eval.calls <= 1
    /\ req[id].modelCalls <= 1
    /\ Len(req[id].sent) <= 1

\* The call of the model failed and the request was answered after one call
C14_Witness ==
  \E id \in DOMAIN req :
    /\ req[id].pc = "done"
    /\ req[id].modelReply.failed
    /\ req[id].modelCalls = 1
    /\ req[id].mon.calls = 1
    /\ req[id].eval.calls = 1
    /\ req[id].sent = <<ServerError>>

\* The handler has gone past Promise.all
Proceeded(r) == r.modelCalls > 0 \/ DOMAIN r.local # {"intent"}

\* C15: within one request both sheet fetches are started before either
\* result is awaited, in either completion order, and parsing, filtering and
\* the model call happen only after both fetches have completed successfully.
C15_BothFetchesThenProceed ==
  \A id \in DOMAIN req :
    /\ (req[id].mon.st = "idle") <=> (req[id].eval.st = "idle")
    /\ req[id].mon.calls = req[id].eval.calls
    /\ Proceeded(req[id]) =>
         /\ req[id].mon.st = "ok" /\ Ok(req[id].mon.answer.status)
         /\ req[id].eval.st = "ok" /\ Ok(req[id].eval.answer.status)

\* Both completion orders: in one request the monitoring sheet arrived first,
\* in another the evaluation sheet
C15_Witness ==
  \E i, j \in DOMAIN req :
    /\ req[i].mon.st = "ok" /\ req[i].eval.st = "pending"
    /\ req[j].mon.st = "pending" /\ req[j].eval.st = "ok"

\* The response of a request that runs alone on r's message, filters, fetched
\* texts and model output
Alone(r) ==
  IF r.body.message = <<>> THEN MissingMessage
  ELSE IF ~apiKey THEN MissingKey
  ELSE IF r.mon.st = "ok" /\ r.eval.st = "ok" /\ r.modelCalls > 0
    THEN ModelAnswer(r.modelReply, Prepared(r.body, r.mon.text, r.eval.text),
                     r.body.filters)
    ELSE ServerError

\* C16: concurrent requests do not interfere: under every interleaving of the
\* requests in flight, the payload of each request is the one it has when it
\* runs alone on its own message, filters, fetched texts and model output.
C16_RequestsIndependent ==
  \A id \in DOMAIN req :
    req[id].pc = "done" => req[id].sent = <<Alone(req[id])>>

\* Two requests with different messages and sheets were both answered from
\* the model's output
C16_Witness ==
  \E i, j \in DOMAIN req :
    /\ i # j
    /\ ParsedToObject(req[i]) /\ ParsedToObject(req[j])
    /\ req[i].body.message # req[j].body.message
    /\ req[i].mon.text # req[j].mon.text
    /\ AnswerOf(req[i]).body.visuals # AnswerOf(req[j]).body.visuals

-----------------------------------------------------------------------------
(* parseCSV: claims *)

\* The rows of the text made of parts, the field being one cell
RowsOf(parts) ==
  parts.before.rows
  \o << parts.before.cells \o <<parts.content>> \o parts.after.cells >>
  \o parts.after.rows

\* C17: a field in double quotes that holds a comma and a newline yields
\* exactly one cell that holds both characters, without ending the cell or
\* the row; each doubled quote inside the field becomes one quote character
\* and the enclosing quotes are not emitted.
C17_QuotedFieldIsOneCell ==
  cRows.called => cRows.out = RowsOf(cParts)

\* A field with a quote, a comma and a newline, between two other cells
C17_Witness ==
  /\ cRows.called
  /\ cParts.content = <<"\"", ",", "\n">>
  /\ cRows.out = << << <<"x">>, <<"\"", ",", "\n">>, <<"y">> >> >>

-----------------------------------------------------------------------------
(* averageNumericColumn: claims *)

\* The cell is a decimal number and nothing else: an optional sign, digits
\* with an optional fraction, white space around
IsDecimalCell(cell) ==
  LET t == Trim(cell)
      u == IF t # <<>> /\ t[1] \in {"-", "+"} THEN Tail(t) ELSE t
      i == DigitsEnd(u, 1)
      j == IF i <= Len(u) /\ u[i] = "." THEN DigitsEnd(u, i + 1) ELSE i
      digits == (i - 1) + (IF j > i THEN j - i - 1 ELSE 0)
  IN digits > 0 /\ j = Len(u) + 1

\* The column of the header that has the name, 0 when there is none
ColumnNamed(header, name) ==
  FirstOf({ i \in 1..Len(header) : ToLowerCase(Trim(header[i])) = name })

\* The values of the numeric cells of the column, in row order
RECURSIVE DecimalCells(_, _)
DecimalCells(data, idx) ==
  IF data = <<>> THEN <<>>
  ELSE (IF idx <= Len(Head(data)) /\ IsDecimalCell(Head(data)[idx])
          THEN <<parseFloat(Head(data)[idx])>> ELSE <<>>)
       \o DecimalCells(Tail(data), idx)

\* C20: averageNumericColumn returns the sum of the numeric cells of the
\* column divided by their number, skipping non-numeric, empty and missing
\* cells, and returns exactly 0, never NaN, when the column is not in the
\* header, the data is empty, or no cell of the column is numeric.
C20_AverageOfNumericCells ==
  aOut.called =>
    LET idx == ColumnNamed(aHeader, aCol)
        numeric == IF idx = 0 THEN <<>> ELSE DecimalCells(aData, idx)
    IN /\ ~IsNaN(aOut.out)
       /\ aOut.out = (IF numeric = <<>> THEN Zero
                      ELSE DivideBy(SumOf(numeric), Len(numeric)))

-----------------------------------------------------------------------------
(* Row filter: exactness and idempotence *)

\* The column of the header whose name, trimmed and without regard to case,
\* is name; 0 when there is none
FilterColumn(header, name) ==
  FirstOf({ i \in 1..Len(header) : ToLowerCase(Trim(header[i])) = name })

\* The criterion is empty, or it equals the cell of the named column; a
\* position past the end of the row is the empty string
CriterionHolds(row, header, criterion, name) ==
  \/ Trim(criterion) = <<>>
  \/ LET idx == FilterColumn(header, name) IN
     /\ idx # 0
     /\ (IF idx <= Len(row) THEN Trim(row[idx]) ELSE <<>>) = Trim(criterion)

\* The positions of the rows that the filter is to keep
KeptRows(rows, filters) ==
  { i \in 2..Len(rows) :
      /\ \E k \in 1..Len(rows[i]) : Trim(rows[i][k]) # <<>>
      /\ CriterionHolds(rows[i], rows[1], filters.project, FILTER_COL.project_name)
      /\ CriterionHolds(rows[i], rows[1], filters.period, FILTER_COL.reporting_period)
      /\ CriterionHolds(rows[i], rows[1], filters.location, FILTER_COL.location) }

\* data is the rows at the positions of kept, in their order
IsSelection(data, rows, kept) ==
  /\ Len(data) = Cardinality(kept)
  /\ \A i \in kept : data[Cardinality({ j \in kept : j <= i })] = rows[i]

\* Every criterion that is not empty has its column in the header
CriteriaHaveColumns(rows, filters) ==
  /\ Trim(filters.project) # <<>> => HasColumn(rows, FILTER_COL.project_name)
  /\ Trim(filters.period) # <<>> => HasColumn(rows, FILTER_COL.reporting_period)
  /\ Trim(filters.location) # <<>> => HasColumn(rows, FILTER_COL.location)

\* C18: the data filterMonitoringRows returns is exactly the rows after the
\* header that are not fully blank and for which every criterion that is not
\* empty after trimming equals, with regard to case, the trimmed cell of the
\* column whose header is the expected name without regard to case; a cell
\* position past the end of a short row is the empty string; the order of the
\* rows is kept.
C18_FilterKeepsExactlyMatchingRows ==
  (fMon.called /\ CriteriaHaveColumns(fRows, fFilters)) =>
    IsSelection(fMon.out.data, fRows, KeptRows(fRows, fFilters))

\* A trimmed criterion with a period criterion: a blank row and a short row
\* are left out and the row that matches both is kept
C18_Witness ==
  /\ fMon.called
  /\ fFilters.project = <<"A", " ">>
  /\ fFilters.period = <<"A">>
  /\ Len(fRows) = 3
  /\ fRows[1] = <<HEADER.Project_Name_padded, HEADER.REPORTING_PERIOD>>
  /\ fRows[2] = << <<" ", "A">> >>
  /\ fRows[3] = << <<" ", "A">>, <<"A">> >>
  /\ fMon.out.data = << fRows[3] >>

\* C19: filtering is idempotent: filterMonitoringRows (filterEvaluationRows)
\* with the same criteria, applied to the header followed by the data it
\* returned, returns the same data, the same rows in the same order.
C19_FilterIdempotent ==
  /\ fMon.called =>
       filterMonitoringRows(<<fMon.out.header>> \o fMon.out.data, fFilters).data
         = fMon.out.data
  /\ fEval.called =>
       filterEvaluationRows(<<fEval.out.header>> \o fEval.out.data, fFilters).data
         = fEval.out.data

\* Both filters were applied; the first left out one of two rows
C19_Witness ==
  /\ fMon.called /\ fEval.called
  /\ Len(fRows) = 3
  /\ fFilters.project = <<"A">>
  /\ fMon.out.data = << fRows[3] >>
  /\ fEval.out.data = << fRows[3] >>

-----------------------------------------------------------------------------
(* percentFromRating: claims *)

KpiPercents(visuals) ==
  { visuals.kpi_scores[i].percent : i \in 1..Len(visuals.kpi_scores) }

-----------------------------------------------------------------------------
(* computeVisualsFromMonitoring: claims *)

RatingNames == <<COL.activity, COL.budget, COL.staff, COL.community, COL.coordination>>

\* The numeric values of row r in the rating columns of the header
RatingsOfRow(header, r) ==
  LET idxs == [k \in 1..Len(RatingNames) |-> IndexOf(LowerHeaders(header), RatingNames[k])]
      numeric == SelectSeq(idxs, LAMBDA k : k # 0 /\ k <= Len(r) /\ IsDecimalCell(r[k]))
  IN [j \in 1..Len(numeric) |-> parseFloat(r[numeric[j]])]

\* The bucket of row r by the mean of its numeric ratings, "none" without one
BucketOfRow(header, r) ==
  LET vals == RatingsOfRow(header, r)
      sum == SumOf(vals)
  IN IF Len(vals) = 0 THEN "none"
     ELSE IF sum.n >= 4 * Len(vals) * sum.d THEN "good"
     ELSE IF sum.n <= 2 * Len(vals) * sum.d THEN "poor"
     ELSE "watch"

RowsIn(header, data, bucket) ==
  Cardinality({ i \in 1..Len(data) : BucketOfRow(header, data[i]) = bucket })

-----------------------------------------------------------------------------
(* summariseMonitoring and summariseEvaluation: claims *)

\* C23: summariseMonitoring and summariseEvaluation return, for an empty
\* header, the sentence 'No ... sheet loaded.' (also when the data is empty
\* too), and for a non-empty header with empty data the sentence 'No matching
\* ... records for current filters.'.
C23_EmptyInputGivesSentence ==
  /\ vCall = "summariseMonitoring" =>
       /\ vMon.header = <<>> => vOut = [text |-> <<"No monitoring sheet loaded.">>]
       /\ vMon.header # <<>> /\ vMon.data = <<>> =>
            vOut = [text |-> <<"No matching monitoring records for current filters.">>]
  /\ vCall = "summariseEvaluation" =>
       /\ vEval.header = <<>> => vOut = [text |-> <<"No evaluation sheet loaded.">>]
       /\ vEval.header # <<>> /\ vEval.data = <<>> =>
            vOut = [text |-> <<"No matching evaluation records for current filters.">>]

\* summariseMonitoring was called with no header and no data
C23_Witness ==
  /\ vCall = "summariseMonitoring"
  /\ vMon.header = <<>> /\ vMon.data = <<>>
  /\ vOut = [text |-> NoMonitoringSheet]

-----------------------------------------------------------------------------
(* Live-data block: claims *)

\* C24: through parseCSV, filterMonitoringRows and summariseMonitoring, the
\* sentence 'No monitoring sheet loaded.' is produced only when the fetched
\* text parses to zero rows; whenever a header row was loaded and no data row
\* remains after filtering (a sheet of a header row and no data rows
\* included), the sentence 'No matching monitoring records for current
\* filters.' is produced.
C24_NoSheetOnlyWhenNothingLoaded ==
  \A id \in DOMAIN req :
    CalledModel(req[id]) =>
      LET rows == parseCSV(req[id].mon.text)
          summary == req[id].local.monitoringSummary
      IN /\ summary = [text |-> <<"No monitoring sheet loaded.">>] => rows = <<>>
         /\ rows # <<>> /\ filterMonitoringRows(rows, req[id].body.filters).data = <<>> =>
              summary = [text |-> <<"No matching monitoring records for current filters.">>]

-----------------------------------------------------------------------------
(* parseCSV on whole lines: claims *)

\* The cells of the line that the text leaves pending at its end: those of a
\* line that is not ended, with the text after an opening quote as the last
\* cell.  An opening quote with nothing before or after it leaves nothing.
PendingRow(tail) ==
  IF tail.kind = "plain" THEN << tail.cells >>
  ELSE IF tail.kind = "open" /\ (tail.cells # <<>> \/ tail.content # <<>>)
    THEN << Append(tail.cells, tail.content) >>
  ELSE <<>>

\* C25: parseCSV yields zero rows for the empty input; a newline that ends the
\* input adds no row after the last one; consecutive commas outside quotes
\* yield empty cells in the same row; and at the end of the input a pending
\* cell or row, also one left inside a quoted field that is never closed, is
\* flushed as the final row.
C25_LinesAndPendingRow ==
  cRows.called => cRows.out = cParts.lines \o PendingRow(cParts.tail)

\* A line with two consecutive commas was ended by a newline, and the text
\* ends inside a quoted field that holds a newline
C25_Witness ==
  /\ cRows.called
  /\ cParts.lines = << << <<"a">>, <<>>, <<>> >> >>
  /\ cParts.tail = [kind |-> "open", cells |-> << <<>> >>, content |-> <<"a", "\n">>]
  /\ cRows.out = << << <<"a">>, <<>>, <<>> >>, << <<>>, <<"a", "\n">> >> >>

-----------------------------------------------------------------------------
(* computeVisualsFromEvaluation: claims *)

\* The columns whose header, in lower case, contains the word
HeadersWith(header, word) ==
  { i \in 1..Len(header) : Includes(LowerHeaders(header)[i], word) }

\* The first of the columns, 0 when there is none
FirstColumn(columns) ==
  IF columns = {} THEN 0 ELSE CHOOSE i \in columns : \A j \in columns : i <= j

\* The performance column: the first header with 'rating' and 'overall' or
\* 'performance', else the first header with 'rating'; 0 when there is none
PerformanceColumn(header) ==
  LET rating == HeadersWith(header, SUB.rating)
      named == rating \cap (HeadersWith(header, SUB.overall)
                            \cup HeadersWith(header, SUB.performance))
  IN IF named # {} THEN FirstColumn(named) ELSE FirstColumn(rating)

\* The number that parseFloat reads in cell k of row r, NaN when the row has
\* no such cell
ReadAt(r, k) == IF k # 0 /\ k <= Len(r) THEN parseFloat(r[k]) ELSE NaN

\* The mean of the outcome and impact ratings of row r that read as numbers,
\* NaN when none does
OutcomeImpactMean(header, r) ==
  LET rating == HeadersWith(header, SUB.rating)
      cols == << FirstColumn(rating \cap HeadersWith(header, SUB.outcome)),
                 FirstColumn(rating \cap HeadersWith(header, SUB.impact)) >>
      read == SelectSeq(cols, LAMBDA k : ~IsNaN(ReadAt(r, k)))
  IN IF read = <<>> THEN NaN
     ELSE DivideBy(SumOf([j \in 1..Len(read) |-> ReadAt(r, read[j])]), Len(read))

\* The value that classifies row r: that of the performance column, and the
\* mean of outcome and impact when no performance column is found
ValueByColumn(header, r) ==
  IF PerformanceColumn(header) # 0 THEN ReadAt(r, PerformanceColumn(header))
  ELSE OutcomeImpactMean(header, r)

\* The value that classifies row r: the performance cell when it reads as a
\* number, and the mean of outcome and impact otherwise
ValueByRow(header, r) ==
  IF ~IsNaN(ReadAt(r, PerformanceColumn(header))) THEN ReadAt(r, PerformanceColumn(header))
  ELSE OutcomeImpactMean(header, r)

\* The number of the values that are at least 4 (good), at most 2 (poor) and
\* between the two (watch); NaN is counted in none
CountedByValue(values) ==
  LET known == { i \in 1..Len(values) : ~IsNaN(values[i]) }
      good == { i \in known : values[i].n >= 4 * values[i].d }
      poor == { i \in known : values[i].n <= 2 * values[i].d }
  IN [ good |-> Cardinality(good),
       watch |-> Cardinality(known \ (good \cup poor)),
       poor |-> Cardinality(poor) ]

\* C26: computeVisualsFromEvaluation classifies a row by its value in the
\* performance column; when no performance column is found, a row that has a
\* numeric outcome or impact rating is classified by the mean of those.
C26_ClassifiedByPerformanceColumn ==
  vCall = "computeVisualsFromEvaluation" /\ vEval.header # <<>> =>
    vOut.distribution =
      CountedByValue([i \in 1..Len(vEval.data) |-> ValueByColumn(vEval.header, vEval.data[i])])

\* C26, amended: computeVisualsFromEvaluation classifies a row by its
\* performance cell when that cell reads as a number; a row whose performance
\* cell does not read as a number, or that has none, is classified by the mean
\* of its outcome and impact ratings that read as numbers, and is left out
\* when neither does.
C26_FallbackPerRow ==
  vCall = "computeVisualsFromEvaluation" /\ vEval.header # <<>> =>
    vOut.distribution =
      CountedByValue([i \in 1..Len(vEval.data) |-> ValueByRow(vEval.header, vEval.data[i])])

\* The performance column is found, the performance cell of the only row is
\* no number, and the row is counted by its outcome rating
C26_Witness ==
  /\ vCall = "computeVisualsFromEvaluation"
  /\ PerformanceColumn(vEval.header) = 3
  /\ vEval.data = << << <<"5">>, <<"x">>, <<"x">> >> >>
  /\ vOut.distribution = [good |-> 1, watch |-> 0, poor |-> 0]

-----------------------------------------------------------------------------
(* mergeVisuals: claims *)

RECURSIVE Total(_)
Total(numbers) == IF numbers = <<>> THEN 0 ELSE Head(numbers) + Total(Tail(numbers))

PercentsOf(visuals) == [i \in 1..Len(visuals.kpi_scores) |-> visuals.kpi_scores[i].percent]

\* k is the mean of the numbers, rounded to the nearest integer, a half upwards
IsRoundedMean(k, numbers) ==
  LET n == Len(numbers) IN
  /\ 2 * n * k - n <= 2 * Total(numbers)
  /\ 2 * Total(numbers) < 2 * n * k + n

\* C27: mergeVisuals returns combined_distribution whose good, watch and poor
\* are the sums of the monitoring and evaluation counts, and
\* combined_score_percent equal to the rounded mean of every positive percent
\* of the two kpi_scores lists (the six of monitoring, 'Overall' included, and
\* the three of evaluation), or 0 when no percent is positive.
C27_MergeSumsAndAveragesPositive ==
  vCall = "mergeVisuals" =>
    LET m == computeVisualsFromMonitoring(vMon.header, vMon.data)
        e == computeVisualsFromEvaluation(vEval.header, vEval.data)
        positive == SelectSeq(PercentsOf(m) \o PercentsOf(e), LAMBDA p : p > 0)
    IN /\ vOut.combined_distribution.good = m.distribution.good + e.distribution.good
       /\ vOut.combined_distribution.watch = m.distribution.watch + e.distribution.watch
       /\ vOut.combined_distribution.poor = m.distribution.poor + e.distribution.poor
       /\ positive = <<>> => vOut.combined_score_percent = 0
       /\ positive # <<>> => IsRoundedMean(vOut.combined_score_percent, positive)

\* Percents 80, 40, 0, 0, 0, 60 of monitoring and 100, 70, 100 of evaluation
\* were merged
C27_Witness ==
  /\ vCall = "mergeVisuals"
  /\ vMon = OneMonitoringSheet
  /\ vEval = OneEvaluationSheet
  /\ vOut = [ combined_score_percent |-> 75,
              combined_distribution |-> [good |-> 2, watch |-> 1, poor |-> 0] ]

-----------------------------------------------------------------------------
(* Chat-completions variants: claims *)

VisualsFields == {"kpi_scores", "distribution", "combined_score_percent", "combined_distribution"}

\* What the model's text says for a field of visuals, undefined when the text
\* has no such field
AiField(text, field) == Get(Get(safeParseAiJson(text), "visuals"), field)

\* The locally computed value of a field of visuals
LocalField(field) == LocalVisuals(VariantLocal)[field]

\* The model supplied the field: combined_score_percent as a number, another
\* field as any value that is not missing, null, 0 or the empty string
Present(field, v) ==
  IF field = "combined_score_percent" THEN v.ty = "number" ELSE Truthy(v)

\* The value as the payload carries it: a number of the text as that number
Carried(v) == IF v.ty = "number" THEN v.n ELSE v

\* The variant takes the field from the model: as Present, and part_000 takes
\* kpi_scores only when it is an array
Taken(variant, field, v) ==
  IF variant = "part_000" /\ field = "kpi_scores" THEN v.ty = "array" ELSE Present(field, v)

\* C28: in the two chat-completions variants, on a parsed response of the
\* model each field of visuals that the model supplied (kpi_scores,
\* distribution, combined_distribution present; combined_score_percent of type
\* number) is returned in place of the local value, and the local value is
\* used only for a field the model left out.
C28_SuppliedFieldReplacesLocal ==
  pOut.called =>
    \A field \in VisualsFields :
      LET v == AiField(pText, field) IN
      IF Present(field, v) THEN pOut.visuals[field] = Carried(v)
      ELSE pOut.visuals[field] = LocalField(field)

\* C28, amended: on a parsed response of the model, kpi_scores of the model is
\* returned when it is an array (part_000) or any truthy value (part_001),
\* distribution and combined_distribution when truthy, combined_score_percent
\* when of type number; every other field is the local value.
C28_TakenFieldReplacesLocal ==
  pOut.called =>
    \A field \in VisualsFields :
      LET v == AiField(pText, field) IN
      IF Taken(pOut.variant, field, v) THEN pOut.visuals[field] = Carried(v)
      ELSE pOut.visuals[field] = LocalField(field)

\* The model supplied kpi_scores and a combined_score_percent of 0 and left
\* distribution out; part_000 returns the first two and the local distribution
C28_Witness ==
  /\ pOut.called /\ pOut.variant = "part_000"
  /\ AiField(pText, "kpi_scores") = JArr(<<JObj(<<>>)>>)
  /\ AiField(pText, "distribution") = JUndefined
  /\ pOut.visuals.kpi_scores = JArr(<<JObj(<<>>)>>)
  /\ pOut.visuals.combined_score_percent = 0
  /\ pOut.visuals.distribution = [good |-> 0, watch |-> 1, poor |-> 0]

-----------------------------------------------------------------------------
(* Intent of a request: claims *)

\* C29: the intent that selects the output rules, decides whether the live
\* summaries are sent, and is reported as detected_intent in the payload is
\* always one of DEFINITION, TOOLS, REPORT, DASHBOARD_ANALYSIS, LEARNING,
\* HOW_TO, also for a request that supplies intent_override.
C29_IntentInClosedSet ==
  \A id \in DOMAIN req :
    CalledModel(req[id]) =>
      /\ req[id].local.intent \in { <<intent>> : intent \in Intents }
      /\ \A k \in 1..Len(req[id].sent) :
           "detected_intent" \in DOMAIN req[id].sent[k].body =>
             req[id].sent[k].body.detected_intent \in { <<intent>> : intent \in Intents }

-----------------------------------------------------------------------------
(* POST /api/pas-ai-chat: every request is answered once *)

\* C30: every chat request whose upstream calls complete, with success or
\* failure, is eventually answered, and exactly one response is sent for it
\* on every path: missing message, missing API key, fetch failure, model
\* failure, unparseable model output, parsed model output, or an exception
\* thrown while processing.
C30_EveryRequestAnsweredOnce ==
  \A id \in Requests :
    /\ [](Len(req[id].sent) <= 1)
    /\ [](req[id].pc = "done" <=> Len(req[id].sent) = 1)
    /\ <>[](req[id].pc = "done" /\ Len(req[id].sent) = 1)

\* The monitoring fetch failed and the request was answered, and the
\* evaluation fetch failed after that
C30_Witness ==
  \E id \in DOMAIN req :
    /\ req[id].pc = "done"
    /\ req[id].mon.st = "failed" /\ req[id].eval.st = "failed"
    /\ req[id].sent = <<ServerError>>

-----------------------------------------------------------------------------
(* Specifications *)

IdleFilter ==
  /\ fRows = <<>>
  /\ fFilters = [project |-> <<>>, period |-> <<>>, location |-> <<>>]
  /\ fMon = NoFilterResult
  /\ fEval = NoFilterResult

IdleIntent == iMessage = <<>> /\ iIntent = NoIntent

IdleParse == pText = <<>> /\ pOut = NoParseResult

IdleCsv == cParts = NoCsvParts /\ cRows = NoCsvResult

IdleAvg == aHeader = <<>> /\ aData = <<>> /\ aCol = <<>> /\ aOut = NoAverage

IdleVis ==
  /\ vMon = NoSheet /\ vEval = NoSheet /\ vRating = Zero
  /\ vCall = "none" /\ vOut = NoSheetResult

IdleChat == apiKey = TRUE /\ req = <<>>

\* The variables of the calls of the pure functions
pureVars == <<filterVars, intentVars, parseVars, csvVars, avgVars, visVars>>

\* The row filters, applied to bounded rows and filters
InitFilter ==
  /\ \E h \in FilterHeaders, d \in SeqsOf(FilterDataRows, 0, MaxRows) :
       fRows \in {<<>>, <<h>> \o d}
  /\ fFilters \in [project : FilterCriteria, period : {<<>>, <<"A">>},
                   location : {<<>>, <<"A">>}]
  /\ fMon = NoFilterResult
  /\ fEval = NoFilterResult
  /\ IdleIntent /\ IdleParse /\ IdleCsv /\ IdleAvg /\ IdleVis /\ IdleChat

NextFilter ==
  \/ CallFilterMonitoring /\ UNCHANGED <<intentVars, parseVars, csvVars, avgVars, visVars, chatVars>>
  \/ CallFilterEvaluation /\ UNCHANGED <<intentVars, parseVars, csvVars, avgVars, visVars, chatVars>>

SpecFilter == InitFilter /\ [][NextFilter]_vars

\* detectMELIntent, applied to bounded messages
InitIntent ==
  /\ iMessage \in IntentMessages
  /\ iIntent = NoIntent
  /\ IdleFilter /\ IdleParse /\ IdleCsv /\ IdleAvg /\ IdleVis /\ IdleChat

NextIntent == CallDetectIntent /\ UNCHANGED <<filterVars, parseVars, csvVars, avgVars, visVars, chatVars>>

SpecIntent == InitIntent /\ [][NextIntent]_vars

\* safeParseAiJson, applied to bounded texts
InitParse ==
  /\ pText \in ParseTexts
  /\ pOut = NoParseResult
  /\ IdleFilter /\ IdleIntent /\ IdleCsv /\ IdleAvg /\ IdleVis /\ IdleChat

NextParse == CallSafeParse /\ UNCHANGED <<filterVars, intentVars, csvVars, avgVars, visVars, chatVars>>

SpecParse == InitParse /\ [][NextParse]_vars

\* The visuals of the two chat-completions variants, for bounded texts of the
\* model
InitVariants ==
  /\ pText \in VisualsTexts
  /\ pOut = NoParseResult
  /\ IdleFilter /\ IdleIntent /\ IdleCsv /\ IdleAvg /\ IdleVis /\ IdleChat

NextVariants ==
  \/ CallVariantArray /\ UNCHANGED <<filterVars, intentVars, csvVars, avgVars, visVars, chatVars>>
  \/ CallVariant /\ UNCHANGED <<filterVars, intentVars, csvVars, avgVars, visVars, chatVars>>

SpecVariants == InitVariants /\ [][NextVariants]_vars

\* POST /api/pas-ai-chat, one request at a time
Init ==
  /\ apiKey \in BOOLEAN
  /\ req = [id \in Requests |-> NewRequest]
  /\ IdleFilter /\ IdleIntent /\ IdleParse /\ IdleCsv /\ IdleAvg /\ IdleVis

Next ==
  \/ \E id \in DOMAIN req : Receive(id) /\ UNCHANGED pureVars
  \/ \E id \in DOMAIN req :
       FetchMonitoringSettles(id) /\ UNCHANGED pureVars
  \/ \E id \in DOMAIN req :
       FetchEvaluationSettles(id) /\ UNCHANGED pureVars
  \/ \E id \in DOMAIN req : CallModel(id) /\ UNCHANGED pureVars
  \/ \E id \in DOMAIN req : ModelSettles(id) /\ UNCHANGED pureVars

Spec == Init /\ [][Next]_vars

\* POST /api/pas-ai-chat, two requests in flight
PairRequests == { 1, 2 }

PairBodies ==
  { [message |-> W.empty, filters |-> NoFilters, intent_override |-> <<>>],
    [message |-> W.help, filters |-> NoFilters, intent_override |-> <<>>],
    [message |-> W.Report, filters |-> [NoFilters EXCEPT !.project = <<"A">>],
     intent_override |-> <<>>] }

PairReplies ==
  { reply \in ModelReplies :
      \/ reply.failed
      \/ reply.status = 401 /\ reply.json /\ reply.body = JObj(<<>>)
      \/ reply.status = 200 /\ reply.json
           /\ reply.body \in {JNull, JObj(<<Member("output_text", JStr(<<"{", "}">>))>>)} }

InitPair ==
  /\ apiKey = TRUE
  /\ req = [id \in PairRequests |-> NewRequest]
  /\ IdleFilter /\ IdleIntent /\ IdleParse /\ IdleCsv /\ IdleAvg /\ IdleVis

NextPair ==
  \/ \E id \in DOMAIN req :
       /\ Receive(id)
       /\ req'[id].body \in PairBodies
       /\ UNCHANGED pureVars
  \/ \E id \in DOMAIN req :
       FetchMonitoringSettles(id) /\ UNCHANGED pureVars
  \/ \E id \in DOMAIN req :
       FetchEvaluationSettles(id) /\ UNCHANGED pureVars
  \/ \E id \in DOMAIN req : CallModel(id) /\ UNCHANGED pureVars
  \/ \E id \in DOMAIN req :
       /\ ModelSettles(id)
       /\ req'[id].modelReply \in PairReplies
       /\ UNCHANGED pureVars

SpecPair == InitPair /\ [][NextPair]_vars

\* One request with the bodies and replies of SpecPair, where the upstream
\* calls complete and the handler runs when it can.  What CallModel prepares
\* from a body and the two texts is kept in a table that is computed once.
PreparedOnce ==
  { [body |-> b, mon |-> m, eval |-> e, local |-> Prepared(b, m, e)] :
      b \in PairBodies, m \in MonitoringTexts, e \in EvaluationTexts }

CallModelOnce(id) ==
  /\ req[id].pc = "fetching"
  /\ req[id].mon.st = "ok"
  /\ req[id].eval.st = "ok"
  /\ \E p \in PreparedOnce :
       /\ p.body = req[id].body /\ p.mon = req[id].mon.text /\ p.eval = req[id].eval.text
       /\ req' = [req EXCEPT ![id] =
                    [@ EXCEPT !.pc = "awaitModel", !.local = p.local, !.modelCalls = @ + 1]]
  /\ UNCHANGED apiKey

LiveStep(id) ==
  \/ Receive(id) /\ req'[id].body \in PairBodies /\ UNCHANGED pureVars
  \/ FetchMonitoringSettles(id) /\ UNCHANGED pureVars
  \/ FetchEvaluationSettles(id) /\ UNCHANGED pureVars
  \/ CallModelOnce(id) /\ UNCHANGED pureVars
  \/ ModelSettles(id) /\ req'[id].modelReply \in PairReplies /\ UNCHANGED pureVars

SpecLive == Init /\ [][NextPair]_vars /\ \A id \in Requests : WF_vars(LiveStep(id))

\* parseCSV, applied to bounded texts
InitCsv ==
  /\ cParts \in CsvParts
  /\ cRows = NoCsvResult
  /\ IdleFilter /\ IdleIntent /\ IdleParse /\ IdleAvg /\ IdleVis /\ IdleChat

NextCsv == CallParseCSV /\ UNCHANGED <<filterVars, intentVars, parseVars, avgVars, visVars, chatVars>>

SpecCsv == InitCsv /\ [][NextCsv]_vars

\* parseCSV, applied to texts of whole lines and a last line that is not ended
InitCsvLines ==
  /\ cParts \in CsvLineParts
  /\ cRows = NoCsvResult
  /\ IdleFilter /\ IdleIntent /\ IdleParse /\ IdleAvg /\ IdleVis /\ IdleChat

NextCsvLines == CallParseLines /\ UNCHANGED <<filterVars, intentVars, parseVars, avgVars, visVars, chatVars>>

SpecCsvLines == InitCsvLines /\ [][NextCsvLines]_vars

\* averageNumericColumn, applied to bounded headers and rows
InitAvg ==
  /\ aHeader \in AvgHeaders
  /\ aData \in SeqsOf(AvgRows(aHeader), 0, MaxRows)
  /\ aCol \in AvgColumns
  /\ aOut = NoAverage
  /\ IdleFilter /\ IdleIntent /\ IdleParse /\ IdleCsv /\ IdleVis /\ IdleChat

NextAvg == CallAverage /\ UNCHANGED <<filterVars, intentVars, parseVars, csvVars, visVars, chatVars>>

SpecAvg == InitAvg /\ [][NextAvg]_vars

\* The summaries, the visuals and the percent, applied to bounded sheets and
\* ratings
InitSheet ==
  /\ \/ vMon \in MonitoringSheets /\ vEval = OneEvaluationSheet /\ vRating = Zero
     \/ vMon = OneMonitoringSheet /\ vEval \in EvaluationSheets /\ vRating = Zero
     \/ vMon = UnratedMonitoringSheet /\ vEval \in UnratedEvaluationSheets /\ vRating = Zero
     \/ vMon = NoSheet /\ vEval = NoSheet /\ vRating \in Ratings
  /\ vCall = "none"
  /\ vOut = NoSheetResult
  /\ IdleFilter /\ IdleIntent /\ IdleParse /\ IdleCsv /\ IdleAvg /\ IdleChat

NextSheet ==
  \/ CallPercentFromRating /\ UNCHANGED <<filterVars, intentVars, parseVars, csvVars, avgVars, chatVars>>
  \/ CallSummariseMonitoring /\ UNCHANGED <<filterVars, intentVars, parseVars, csvVars, avgVars, chatVars>>
  \/ CallSummariseEvaluation /\ UNCHANGED <<filterVars, intentVars, parseVars, csvVars, avgVars, chatVars>>

SpecSheet == InitSheet /\ [][NextSheet]_vars

\* The visuals of each sheet, for the same sheets
NextVisuals ==
  \/ CallVisualsFromMonitoring /\ UNCHANGED <<filterVars, intentVars, parseVars, csvVars, avgVars, chatVars>>
  \/ CallVisualsFromEvaluation /\ UNCHANGED <<filterVars, intentVars, parseVars, csvVars, avgVars, chatVars>>

SpecVisuals == InitSheet /\ [][NextVisuals]_vars

\* The merged visuals, for the same sheets
NextMerge == CallMergeVisuals /\ UNCHANGED <<filterVars, intentVars, parseVars, csvVars, avgVars, chatVars>>

SpecMerge == InitSheet /\ [][NextMerge]_vars

=============================================================================
